---- MODULE Spec2Model ----
(***************************************************************************)
(* State-machine model of the plate crawler: the worker gh-plate-sync.cjs  *)
(* (station orchestrator, per-station crawl, staging publisher) and the    *)
(* finalizer trigger_swap.cjs, sharing one data store.                     *)
(***************************************************************************)
EXTENDS Integers, Sequences, FiniteSets, TLC

(* ------------------------------------------------------------------ *)
(* Bounds of the model                                                  *)
(* ------------------------------------------------------------------ *)

\* Largest number of result pages the portal serves for one query.
MaxPages == 2

\* Latest clock reading (ms since the limiter was constructed) at which wait() is called.
MaxClock == 200000

(* ------------------------------------------------------------------ *)
(* Program constants                                                    *)
(* ------------------------------------------------------------------ *)

\* A navigation loop that allows a fourth attempt.
LooseNavAttempts == 3 + 1

\* gh-plate-sync.cjs:386  while (navAttempts < 3 && !navSuccess)
maxNavAttempts == 3

\* An outer retry budget that is one too large.
LooseQueryAttempts == 10 + 1

\* gh-plate-sync.cjs:440  const maxQueryAttempts = 10
maxQueryAttempts == 10

\* gh-plate-sync.cjs:452  while (!code && captchaAttempts < 5)
maxCaptchaAttempts == 5

\* gh-plate-sync.cjs:74  const geminiLimiter = new RateLimiter(25, 60000)
limit == 25
interval == 60000

\* constructor(limit, interval): tokens = limit, lastRefill = Date.now(); the clock
\* starts at 0. grants counts the acquisitions since the last refill; found and
\* refilled tell what the last wait() call met and did.
NewLimiter ==
    [tokens |-> limit, lastRefill |-> 0, now |-> 0, grants |-> 0,
     found |-> limit, refilled |-> FALSE]

\* TARGET_SHARD === null: the unsharded ("full") run
NoShard == "null"

Shards == {"A", "B"}

\* The value of TARGET_SHARD when the argument is given as --shard= : the empty string
EmptyLabel == ""

\* JavaScript truthiness of TARGET_SHARD: null and the empty string are falsy
Truthy(shard) == shard \notin {NoShard, EmptyLabel}

Workers == {1, 2}

(* ------------------------------------------------------------------ *)
(* Station roster (system_configs row 'mvdis_stations')                 *)
(* ------------------------------------------------------------------ *)

S20 == [id |-> "20", no_rental |-> FALSE, shard |-> "A"]
S21 == [id |-> "21", no_rental |-> TRUE, shard |-> "B"]
S30 == [id |-> "30", no_rental |-> TRUE, shard |-> "A"]

StationConfigs ==
    { << >>,
      << [id |-> "2", stations |-> <<S20, S21>>] >>,
      << [id |-> "3", stations |-> <<S30>>], [id |-> "2", stations |-> <<S21>>] >> }

\* Object.keys() lists integer-like keys in ascending numeric order.
DeptOrder == <<"2", "3">>

\* stations.filter(s => !TARGET_SHARD || s.shard === TARGET_SHARD)
ShardFilter(stations, shard) ==
    SelectSeq(stations, LAMBDA s : ~Truthy(shard) \/ s.shard = shard)

RECURSIVE FlattenDepts(_, _, _)
\* The (deptId, station) pairs in the order of the two nested for-loops of main:
\* departments by Object.keys(TARGET_DEPTS), stations in roster order.
FlattenDepts(stationData, shard, k) ==
    IF k > Len(DeptOrder) THEN << >>
    ELSE LET d == DeptOrder[k]
             hits == SelectSeq(stationData, LAMBDA dept : dept.id = d)
             sts == IF hits = << >> THEN << >>
                    ELSE ShardFilter(hits[Len(hits)].stations, shard)
         IN  [i \in 1..Len(sts) |-> [deptId |-> d, station |-> sts[i]]]
             \o FlattenDepts(stationData, shard, k + 1)

\* loadStationData: TARGET_DEPTS as the sequence main iterates over
LoadTargets(stationData, shard) == FlattenDepts(stationData, shard, 1)

\* const plateTypes = ['g']; if (!station.no_rental) plateTypes.push('h')
PlateTypes(station) == IF station.no_rental THEN <<"g">> ELSE <<"g", "h">>

(* ------------------------------------------------------------------ *)
(* Rows                                                                 *)
(* ------------------------------------------------------------------ *)

\* Rows scraped from one result page: {no, price}, the price as the text of the cell
PageRowChoices ==
    { << >>,
      << [no |-> "A", price |-> "10"] >>,
      << [no |-> "B", price |-> "20"], [no |-> "A", price |-> "15"] >> }

\* parseInt(p.price) || 0 on the price texts of the model
priceOf(text) ==
    CASE text = "10" -> 10
      [] text = "15" -> 15
      [] text = "20" -> 20
      [] OTHER -> 0

\* A staging row left behind by an earlier run.
OldRow(dept, st) ==
    [region_id |-> dept, station_id |-> st, plate_type |-> "g",
     plate_no |-> "Z", price |-> 5, run |-> 0]

StagingChoices ==
    { {}, {OldRow("2", "20"), OldRow("2", "21"), OldRow("3", "30")} }

ProductionChoices ==
    { {OldRow("2", "20"), OldRow("2", "21")} }

\* The partition filter with the station condition dropped.
PartitionByRegion(rows, dept, st) ==
    {r \in rows : r.region_id = dept}

\* .eq('station_id', station.id).eq('region_id', deptId)
Partition(rows, dept, st) ==
    {r \in rows : r.region_id = dept /\ r.station_id = st}

RECURSIVE DedupFrom(_, _)
\* uniquePlatesMap: Map keyed by plate number; a later set() replaces the value and
\* keeps the key's first insertion position.
DedupFrom(plates, acc) ==
    IF plates = << >> THEN acc
    ELSE LET p == Head(plates)
             pos == {i \in 1..Len(acc) : acc[i].no = p.no}
         IN  IF pos = {} THEN DedupFrom(Tail(plates), Append(acc, p))
             ELSE DedupFrom(Tail(plates),
                            [i \in 1..Len(acc) |-> IF i \in pos THEN p ELSE acc[i]])

\* A deduplication that keeps the first occurrence of a plate number.
finalPlatesKeepFirst(collectedPlates) ==
    SelectSeq([i \in 1..Len(collectedPlates) |->
                 [no |-> collectedPlates[i].no, price |-> collectedPlates[i].price,
                  first |-> \A j \in 1..(i - 1) : collectedPlates[j].no # collectedPlates[i].no]],
              LAMBDA p : p.first)

finalPlates(collectedPlates) == DedupFrom(collectedPlates, << >>)

\* finalPlates.map(p => ({station_id, region_id, plate_type, plate_no, price, ...}))
StagingRows(plates, dept, st, pType, run) ==
    { [region_id |-> dept, station_id |-> st, plate_type |-> pType,
       plate_no |-> plates[i].no, price |-> priceOf(plates[i].price), run |-> run]
      : i \in 1..Len(plates) }

(* ------------------------------------------------------------------ *)
(* State                                                                *)
(* ------------------------------------------------------------------ *)

VARIABLES
    system_configs,            \* the roster row 'mvdis_stations' of the data store
    available_plates_staging,  \* staging table (set of rows)
    available_plates,          \* production view (set of rows)
    sync_metadata,             \* sync key -> last reported status
    sync_logs,                 \* worker -> rows of sync_logs written under its runId
    proc,                      \* worker -> control state and locals of gh-plate-sync.cjs
    stats,                     \* worker -> the SyncStats object
    fin,                       \* the finalizer process trigger_swap.cjs
    swapLog,                   \* history: the invocations of rpc('swap_plates_data')
    hist,                      \* history: worker -> what happened in its run
    solverCalls,               \* history: worker -> solveCaptcha calls of its current query
    lastInsert,                \* history: worker -> input and effect of its last staging insert
    captcha,                   \* worker -> the captchaAttempts / captchaSuccess fields of SyncStats
    pacing,                    \* one call of adaptiveSleep: arguments and applied bounds
    limiter,                   \* the RateLimiter object geminiLimiter and its clock
    throttle,                  \* the pacing state of one processStation call up to the CAPTCHA loop
    solver,                    \* one CAPTCHA retry loop of a query: solveCaptcha results, typed code, cooldown
    race,                      \* one CAPTCHA submission: the dialog handler against waitForFunction
    pager                      \* the pagination loop of one accepted query

vars == << system_configs, available_plates_staging, available_plates, sync_metadata,
           sync_logs, proc, stats, fin, swapLog, hist, solverCalls,
           lastInsert, captcha, pacing, limiter, throttle, solver, race, pager >>

\* The variables that only the specifications of single operations change.
aux == << solverCalls, lastInsert, captcha, pacing, limiter, throttle, solver, race, pager >>

SyncKeys == {"plates_full_sync"} \cup {"plates_sync_shard_A", "plates_sync_shard_B"}

\* const syncKey = TARGET_SHARD ? `plates_sync_shard_${TARGET_SHARD}` : 'plates_full_sync'
syncKey(shard) ==
    CASE ~Truthy(shard) -> "plates_full_sync"
      [] shard = "A" -> "plates_sync_shard_A"
      [] shard = "B" -> "plates_sync_shard_B"

\* new SyncStats(runId)
NewStats ==
    [status |-> "RUNNING", totalPlates |-> 0, stationsSuccess |-> 0,
     stationsFailed |-> 0, errors |-> << >>]

\* The locals of one processStation call and of its plate-type iteration.
NoLocals ==
    [pIdx |-> 0, status |-> "SUCCESS", navAttempts |-> 0, attempts |-> 0,
     captchaAttempts |-> 0, code |-> FALSE, success |-> FALSE,
     collectedPlates |-> << >>, pages |-> 0]

NewProc(shard) ==
    [pc |-> "load", TARGET_SHARD |-> shard, TARGET_DEPTS |-> << >>, idx |-> 0,
     count |-> -1, e |-> "none", browser |-> "none", exitCode |-> -1,
     loc |-> NoLocals]

OffProc ==
    [pc |-> "off", TARGET_SHARD |-> NoShard, TARGET_DEPTS |-> << >>, idx |-> 0,
     count |-> -1, e |-> "none", browser |-> "none", exitCode |-> -1,
     loc |-> NoLocals]

NewHist ==
    [reportedRunning |-> FALSE, paginated |-> {}, abandoned |-> {}, insertFailed |-> {},
     noData |-> {}, navExhausted |-> FALSE, lastUpsert |-> "none", closeCalled |-> FALSE,
     saveCalled |-> FALSE, keys |-> {}, cleared |-> "none",
     swapInvoked |-> FALSE, swapError |-> FALSE]

\* No staging insert made yet.
NoInsert == [plates |-> << >>, rows |-> {}]

\* this.captchaAttempts = 0; this.captchaSuccess = 0
NewCaptcha == [captchaAttempts |-> 0, captchaSuccess |-> 0]

\* No processStation call is being paced.
NoThrottle ==
    [pc |-> "off", station |-> "none", lastLatency |-> 0, navAttempts |-> 0,
     sleeps |-> << >>]

\* No CAPTCHA retry loop is running.
NoSolver ==
    [pc |-> "off", attempts |-> 0, captchaAttempts |-> 0, code |-> << >>,
     success |-> FALSE, typed |-> << >>, submissions |-> 0, skipped |-> 0,
     error |-> "none", cooldown |-> FALSE]

\* No CAPTCHA submission is being waited for.
NoRace ==
    [pc |-> "off", now |-> 0, listening |-> FALSE, alertMsg |-> FALSE, alertAt |-> -1,
     success |-> FALSE, outcome |-> "none", decidedAt |-> -1, first |-> "none"]

\* No result page is being read.
NoPager ==
    [pc |-> "off", reads |-> 0, clicks |-> 0, hasNext |-> FALSE, collected |-> 0,
     dom |-> [noData |-> FALSE, marker |-> [present |-> FALSE, current |-> 0, total |-> 0],
              next |-> FALSE, rows |-> 0]]

\* adaptiveSleep not called yet.
NoPacing ==
    [min |-> 0, max |-> 0, latency |-> 0, finalMin |-> 0, finalMax |-> 0, ms |-> 0,
     called |-> FALSE]

P(w) == proc[w]
L(w) == proc[w].loc

\* The station record and department of the processStation call in progress.
CurDept(w) == P(w).TARGET_DEPTS[P(w).idx].deptId
CurStation(w) == P(w).TARGET_DEPTS[P(w).idx].station
CurType(w) == PlateTypes(CurStation(w))[L(w).pIdx]
CurQuery(w) == <<CurDept(w), CurStation(w).id, CurType(w)>>

SetProc(w, p) == proc' = [proc EXCEPT ![w] = p]
SetStats(w, s) == stats' = [stats EXCEPT ![w] = s]
SetHist(w, h) == hist' = [hist EXCEPT ![w] = h]

\* stats.addError(station, error)
addError(s, msg) == [s EXCEPT !.errors = Append(@, msg)]

\* reportStatus(status, message, key): an upsert whose error is only logged
reportStatus(status, key, err) ==
    sync_metadata' = IF err THEN sync_metadata
                     ELSE [sync_metadata EXCEPT ![key] = status]

\* An exception leaving the try block of main: control moves to the catch clause and
\* the locals of the interrupted call leave scope.
Throw(w, msg) ==
    SetProc(w, [P(w) EXCEPT !.pc = "catch", !.e = msg, !.loc = NoLocals])

DBUnchanged == UNCHANGED << system_configs, available_plates_staging, available_plates,
                            sync_metadata, sync_logs >>

(* ------------------------------------------------------------------ *)
(* main of gh-plate-sync.cjs                                            *)
(* ------------------------------------------------------------------ *)

\* try { await loadStationData() } catch { process.exit(1) }
LoadStationData(w) ==
    /\ P(w).pc = "load"
    /\ \E err \in BOOLEAN :
         IF err
         THEN SetProc(w, [P(w) EXCEPT !.pc = "exited", !.exitCode = 1])
         ELSE SetProc(w, [P(w) EXCEPT !.pc = "launch",
                            !.TARGET_DEPTS = LoadTargets(system_configs, P(w).TARGET_SHARD)])
    /\ UNCHANGED << stats, fin, swapLog, hist >>
    /\ DBUnchanged

\* const browser = await puppeteer.launch(...), outside the try block: a rejection is
\* only logged by the unhandledRejection handler and the process ends by itself.
Launch(w) ==
    /\ P(w).pc = "launch"
    /\ \E ok \in BOOLEAN :
         IF ok
         THEN SetProc(w, [P(w) EXCEPT !.pc = "setup", !.browser = "open"])
         ELSE SetProc(w, [P(w) EXCEPT !.pc = "exited", !.exitCode = 0])
    /\ UNCHANGED << stats, fin, swapLog, hist >>
    /\ DBUnchanged

\* browser.newPage(), page.authenticate, setExtraHTTPHeaders, setViewport
SetupPage(w) ==
    /\ P(w).pc = "setup"
    /\ \E ok \in BOOLEAN :
         IF ok
         THEN SetProc(w, [P(w) EXCEPT !.pc = "reportRunning"]) /\ UNCHANGED hist
         ELSE Throw(w, "setup")
    /\ UNCHANGED << stats, fin, swapLog, hist >>
    /\ DBUnchanged

\* The RUNNING report followed by clearStaging() whatever the shard argument.
ReportRunningThenClear(w) ==
    /\ P(w).pc = "reportRunning"
    /\ \E err \in BOOLEAN :
         /\ reportStatus("RUNNING", syncKey(P(w).TARGET_SHARD), err)
         /\ SetHist(w, [hist[w] EXCEPT !.reportedRunning = ~err,
                                        !.keys = @ \cup {syncKey(P(w).TARGET_SHARD)}])
    /\ SetProc(w, [P(w) EXCEPT !.pc = "clearStaging"])
    /\ UNCHANGED << system_configs, available_plates_staging, available_plates,
                    sync_logs, stats, fin, swapLog >>

\* await reportStatus('RUNNING', null, syncKey); if (TARGET_SHARD === null) clearStaging()
ReportRunning(w) ==
    /\ P(w).pc = "reportRunning"
    /\ \E err \in BOOLEAN :
         /\ reportStatus("RUNNING", syncKey(P(w).TARGET_SHARD), err)
         /\ SetHist(w, [hist[w] EXCEPT !.reportedRunning = ~err,
                                        !.keys = @ \cup {syncKey(P(w).TARGET_SHARD)}])
    /\ SetProc(w, [P(w) EXCEPT !.pc =
                     IF P(w).TARGET_SHARD = NoShard THEN "clearStaging" ELSE "stations"])
    /\ UNCHANGED << system_configs, available_plates_staging, available_plates,
                    sync_logs, stats, fin, swapLog >>

\* clearStaging(): delete every staging row; an error is only logged
ClearStaging(w) ==
    /\ P(w).pc = "clearStaging"
    /\ \E err \in BOOLEAN :
         /\ available_plates_staging' = IF err THEN available_plates_staging ELSE {}
         /\ SetHist(w, [hist[w] EXCEPT !.cleared = IF err THEN "error" ELSE "ok"])
    /\ SetProc(w, [P(w) EXCEPT !.pc = "stations"])
    /\ UNCHANGED << system_configs, available_plates, sync_metadata, sync_logs,
                    stats, fin, swapLog >>

(* ------------------------------------------------------------------ *)
(* processStation                                                       *)
(* ------------------------------------------------------------------ *)

\* for (const deptId of Object.keys(TARGET_DEPTS)) for (const station of stations)
\*     await processStation(page, deptId, station)
StationLoop(w) ==
    /\ P(w).pc = "stations"
    /\ IF P(w).idx < Len(P(w).TARGET_DEPTS)
       THEN SetProc(w, [P(w) EXCEPT !.pc = "preclear", !.idx = @ + 1, !.loc = NoLocals])
       ELSE SetProc(w, [P(w) EXCEPT !.pc = "publish"])
    /\ UNCHANGED << stats, fin, swapLog, hist >>
    /\ DBUnchanged

\* delete().eq('station_id', station.id).eq('region_id', deptId); an error is only logged
PreClear(w) ==
    /\ P(w).pc = "preclear"
    /\ \E err \in BOOLEAN :
         available_plates_staging' =
           IF err THEN available_plates_staging
           ELSE available_plates_staging
                  \ Partition(available_plates_staging, CurDept(w), CurStation(w).id)
    /\ SetProc(w, [P(w) EXCEPT !.pc = "types"])
    /\ UNCHANGED << system_configs, available_plates, sync_metadata, sync_logs,
                    stats, fin, swapLog, hist >>

\* The end of one plate-type iteration (also by continue): the block-scoped locals
\* navAttempts, attempts, success, collectedPlates, ... leave scope; pIdx and the
\* station's status live on.
EndIteration(w, status) ==
    [P(w) EXCEPT !.pc = "types",
                 !.loc = [NoLocals EXCEPT !.pIdx = L(w).pIdx, !.status = status]]

\* for (const pType of plateTypes) { let navSuccess = false; let navAttempts = 0; ...
TypeLoop(w) ==
    /\ P(w).pc = "types"
    /\ IF L(w).pIdx < Len(PlateTypes(CurStation(w)))
       THEN SetProc(w, [P(w) EXCEPT !.pc = "nav", !.loc.pIdx = @ + 1,
                          !.loc.navAttempts = 0])
       ELSE SetProc(w, [P(w) EXCEPT !.pc = "epilogue"])
    /\ UNCHANGED << stats, fin, swapLog, hist >>
    /\ DBUnchanged

\* Navigate without the rethrow of the third failure: the loop ends and the form
\* selections follow.
NavigateNoRethrow(w) ==
    /\ P(w).pc = "nav"
    /\ L(w).navAttempts < maxNavAttempts
    /\ \E ok \in BOOLEAN :
         LET n == L(w).navAttempts + 1 IN
         IF ok
         THEN SetProc(w, [P(w) EXCEPT !.pc = "form", !.loc.navAttempts = n])
              /\ UNCHANGED hist
         ELSE IF n < maxNavAttempts
              THEN SetProc(w, [P(w) EXCEPT !.loc.navAttempts = n]) /\ UNCHANGED hist
              ELSE SetProc(w, [P(w) EXCEPT !.pc = "form", !.loc.navAttempts = n])
                   /\ SetHist(w, [hist[w] EXCEPT !.navExhausted = TRUE])
    /\ UNCHANGED << stats, fin, swapLog >>
    /\ DBUnchanged

\* while (navAttempts < 3 && !navSuccess) { navAttempts++; try { page.goto } catch ... }
\* catch: if (navAttempts < 3) await randomSleep(...); else throw e
Navigate(w) ==
    /\ P(w).pc = "nav"
    /\ L(w).navAttempts < maxNavAttempts
    /\ \E ok \in BOOLEAN :
         LET n == L(w).navAttempts + 1 IN
         IF ok
         THEN SetProc(w, [P(w) EXCEPT !.pc = "form", !.loc.navAttempts = n])
              /\ UNCHANGED hist
         ELSE IF n < maxNavAttempts
              THEN SetProc(w, [P(w) EXCEPT !.loc.navAttempts = n]) /\ UNCHANGED hist
              ELSE Throw(w, "nav")
                   /\ SetHist(w, [hist[w] EXCEPT !.navExhausted = TRUE])
    /\ UNCHANGED << stats, fin, swapLog >>
    /\ DBUnchanged

\* The form selections with an absent plate-type option handled like an exhausted
\* query: counted as a failure and recorded as an error.
SelectFormAbsentFails(w) ==
    /\ P(w).pc = "form"
    /\ \E outcome \in {"selected", "absent", "throws"} :
         CASE outcome = "selected" ->
                /\ SetProc(w, [P(w) EXCEPT !.pc = "outer", !.loc.attempts = 0,
                                 !.loc.success = FALSE, !.loc.collectedPlates = << >>])
                /\ UNCHANGED stats
           [] outcome = "absent" ->
                /\ SetProc(w, EndIteration(w, "FAILED"))
                /\ SetStats(w, addError([stats[w] EXCEPT !.stationsFailed = @ + 1],
                                        "MaxAttempts"))
           [] outcome = "throws" -> Throw(w, "select") /\ UNCHANGED stats
    /\ UNCHANGED << fin, swapLog, hist >>
    /\ DBUnchanged

\* The form selections up to the plate type: page.select may throw; the plate-type
\* option may be absent (continue); otherwise the retry loop's locals are set up.
SelectForm(w) ==
    /\ P(w).pc = "form"
    /\ \E outcome \in {"selected", "absent", "throws"} :
         CASE outcome = "selected" ->
                SetProc(w, [P(w) EXCEPT !.pc = "outer", !.loc.attempts = 0,
                              !.loc.success = FALSE, !.loc.collectedPlates = << >>])
           [] outcome = "absent" -> SetProc(w, EndIteration(w, L(w).status))
           [] outcome = "throws" -> Throw(w, "select")
    /\ UNCHANGED << stats, fin, swapLog, hist >>
    /\ DBUnchanged

\* while (attempts < maxQueryAttempts && !success) { attempts++; code = null; ... }
OuterAttempt(w) ==
    /\ P(w).pc = "outer"
    /\ L(w).attempts < maxQueryAttempts /\ ~L(w).success
    /\ SetProc(w, [P(w) EXCEPT !.pc = "inner", !.loc.attempts = @ + 1,
                     !.loc.code = FALSE, !.loc.captchaAttempts = 0])
    /\ UNCHANGED << stats, fin, swapLog, hist >>
    /\ DBUnchanged

\* while (!code && captchaAttempts < 5) { captchaAttempts++; rawCode = solveCaptcha() }
\* solveCaptcha catches its own errors and returns null.
SolveAttempt(w) ==
    /\ P(w).pc = "inner"
    /\ ~L(w).code /\ L(w).captchaAttempts < maxCaptchaAttempts
    /\ \E rawCode \in {"4chars", "other", "null"} :
         SetProc(w, [P(w) EXCEPT !.loc.captchaAttempts = @ + 1,
                       !.loc.code = (rawCode = "4chars")])
    /\ UNCHANGED << stats, fin, swapLog, hist >>
    /\ DBUnchanged

\* if (!code) continue;   one outer attempt is consumed, nothing is submitted
NoCode(w) ==
    /\ P(w).pc = "inner"
    /\ ~L(w).code /\ ~(L(w).captchaAttempts < maxCaptchaAttempts)
    /\ SetProc(w, [P(w) EXCEPT !.pc = "outer"])
    /\ UNCHANGED << stats, fin, swapLog, hist >>
    /\ DBUnchanged

\* humanType + doSubmit + waitForFunction: success only when the results are rendered
\* within the timeout and no alert was seen
Submit(w) ==
    /\ P(w).pc = "inner"
    /\ L(w).code
    /\ \E rendered \in BOOLEAN, alertMsg \in BOOLEAN, throws \in BOOLEAN :
         IF throws
         THEN Throw(w, "type")
         ELSE SetProc(w, [P(w) EXCEPT !.pc = "outer",
                            !.loc.success = (rendered /\ ~alertMsg)])
    /\ UNCHANGED << stats, fin, swapLog, hist >>
    /\ DBUnchanged

\* } else { stats.stationsFailed++; stats.addError(...); status = 'FAILED' }
Abandon(w) ==
    /\ P(w).pc = "outer"
    /\ ~(L(w).attempts < maxQueryAttempts /\ ~L(w).success)
    /\ ~L(w).success
    /\ SetStats(w, addError([stats[w] EXCEPT !.stationsFailed = @ + 1], "MaxAttempts"))
    /\ SetProc(w, EndIteration(w, "FAILED"))
    /\ SetHist(w, [hist[w] EXCEPT !.abandoned = @ \cup {CurQuery(w)}])
    /\ UNCHANGED << fin, swapLog >>
    /\ DBUnchanged

\* if (success) { let hasNext = true; while (hasNext) ...
\* The retry loop's counters are not read again in this iteration.
Accepted(w) ==
    /\ P(w).pc = "outer"
    /\ L(w).success
    /\ SetProc(w, [P(w) EXCEPT !.pc = "paginate", !.loc.attempts = 0,
                     !.loc.captchaAttempts = 0, !.loc.code = FALSE,
                     !.loc.navAttempts = 0])
    /\ UNCHANGED << stats, fin, swapLog, hist >>
    /\ DBUnchanged

(* ------------------------------------------------------------------ *)
(* Result pagination and staging insert                                 *)
(* ------------------------------------------------------------------ *)

\* What the rendered result page shows: the no-data text, the page marker
\* "current / total" and whether a next-page control exists.
PageDoms ==
    { [noData |-> TRUE, current |-> 1, total |-> 1, next |-> FALSE] }
    \cup { [noData |-> FALSE, current |-> 1, total |-> t, next |-> n]
           : t \in {1, 2}, n \in BOOLEAN }

parsePageInfo(dom) ==
    IF dom.noData
    THEN [current |-> 1, total |-> 1, noData |-> TRUE, hasNextButton |-> FALSE]
    ELSE [current |-> dom.current,
          total |-> IF dom.total = 1 /\ dom.next THEN 2 ELSE dom.total,
          noData |-> FALSE, hasNextButton |-> dom.next]

\* The next-page decision taken from the page marker alone.
hasNextByMarker(info, nextBtn) ==
    IF info.noData THEN FALSE ELSE info.current < info.total

\* One iteration of while (hasNext): the value of hasNext after it.
hasNextAfter(info, nextBtn) ==
    IF info.noData THEN FALSE
    ELSE IF info.current < info.total \/ info.hasNextButton THEN nextBtn ELSE FALSE

\* The accumulator with the scraped rows appended whatever the page says.
collectedIgnoringMarker(info, collectedPlates, plates) == collectedPlates \o plates

\* if (info.noData) { hasNext = false; continue }  ...  collectedPlates.push(...plates)
collectedAfter(info, collectedPlates, plates) ==
    IF info.noData THEN collectedPlates ELSE collectedPlates \o plates

\* The queries whose first result page showed the no-data marker.
MarkerSeen(w, info) ==
    IF info.noData /\ L(w).pages = 0
    THEN hist[w].noData \cup {CurQuery(w)}
    ELSE hist[w].noData

\* Paginate with every scraped page inserted into staging at once.
PaginateFlush(w) ==
    /\ P(w).pc = "paginate"
    /\ \E dom \in PageDoms, plates \in PageRowChoices :
         /\ dom.next => L(w).pages + 1 < MaxPages
         /\ LET info == parsePageInfo(dom)
                more == hasNextAfter(info, dom.next)
                got  == IF info.noData THEN << >> ELSE plates
            IN  /\ SetProc(w, [P(w) EXCEPT
                                 !.pc = IF more THEN "paginate" ELSE "stage",
                                 !.loc.pages = IF info.noData THEN @ ELSE @ + 1])
                /\ SetHist(w, [hist[w] EXCEPT !.paginated =
                                 IF more THEN @ ELSE @ \cup {CurQuery(w)},
                                 !.noData = MarkerSeen(w, info)])
                /\ available_plates_staging' = available_plates_staging \cup
                      StagingRows(got, CurDept(w), CurStation(w).id, CurType(w), w)
    /\ UNCHANGED << system_configs, available_plates, sync_metadata, sync_logs,
                    stats, fin, swapLog >>

\* One iteration of the pagination loop. The portal serves at most MaxPages pages.
Paginate(w) ==
    /\ P(w).pc = "paginate"
    /\ \E dom \in PageDoms, plates \in PageRowChoices, throws \in BOOLEAN :
         /\ dom.next => L(w).pages + 1 < MaxPages
         /\ IF throws
            THEN Throw(w, "evaluate") /\ UNCHANGED hist
            ELSE LET info == parsePageInfo(dom)
                     more == hasNextAfter(info, dom.next)
                     got  == collectedAfter(info, L(w).collectedPlates, plates)
                 IN  /\ SetProc(w, [P(w) EXCEPT
                                      !.pc = IF more THEN "paginate" ELSE "stage",
                                      !.loc.collectedPlates = got,
                                      !.loc.pages = IF info.noData THEN @ ELSE @ + 1])
                     /\ SetHist(w, [hist[w] EXCEPT !.paginated =
                                      IF more THEN @ ELSE @ \cup {CurQuery(w)},
                                      !.noData = MarkerSeen(w, info)])
    /\ UNCHANGED << stats, fin, swapLog >>
    /\ DBUnchanged

\* Stage with the station's partition cleared again before each insert.
StageReplacesPartition(w) ==
    /\ P(w).pc = "stage"
    /\ IF Len(L(w).collectedPlates) > 0
       THEN \E err \in BOOLEAN :
              LET fp == finalPlates(L(w).collectedPlates)
                  rows == StagingRows(fp, CurDept(w), CurStation(w).id, CurType(w), w)
                  kept == available_plates_staging
                            \ Partition(available_plates_staging, CurDept(w), CurStation(w).id)
              IN  IF err
                  THEN /\ UNCHANGED available_plates_staging
                       /\ SetStats(w, addError(stats[w], "DBStaging"))
                       /\ SetHist(w, [hist[w] EXCEPT !.insertFailed = @ \cup {CurQuery(w)}])
                  ELSE /\ available_plates_staging' = kept \cup rows
                       /\ SetStats(w, [stats[w] EXCEPT !.totalPlates = @ + Len(fp)])
                       /\ UNCHANGED hist
       ELSE UNCHANGED << available_plates_staging, stats, hist >>
    /\ SetProc(w, EndIteration(w, L(w).status))
    /\ UNCHANGED << system_configs, available_plates, sync_metadata, sync_logs,
                    fin, swapLog >>

\* if (collectedPlates.length > 0) { dedup; insert(...); error ? addError : totalPlates += }
\* then the end of the plate-type iteration
Stage(w) ==
    /\ P(w).pc = "stage"
    /\ IF Len(L(w).collectedPlates) > 0
       THEN \E err \in BOOLEAN :
              LET fp == finalPlates(L(w).collectedPlates)
                  rows == StagingRows(fp, CurDept(w), CurStation(w).id, CurType(w), w)
              IN  IF err
                  THEN /\ UNCHANGED available_plates_staging
                       /\ SetStats(w, addError(stats[w], "DBStaging"))
                       /\ SetHist(w, [hist[w] EXCEPT !.insertFailed = @ \cup {CurQuery(w)}])
                  ELSE /\ available_plates_staging' = available_plates_staging \cup rows
                       /\ SetStats(w, [stats[w] EXCEPT !.totalPlates = @ + Len(fp)])
                       /\ UNCHANGED hist
       ELSE UNCHANGED << available_plates_staging, stats, hist >>
    /\ SetProc(w, EndIteration(w, L(w).status))
    /\ UNCHANGED << system_configs, available_plates, sync_metadata, sync_logs,
                    fin, swapLog >>

\* if (status !== 'FAILED') stats.stationsSuccess++
StationCounted(w) ==
    IF L(w).status # "FAILED"
    THEN [stats[w] EXCEPT !.stationsSuccess = @ + 1]
    ELSE stats[w]

\* The station epilogue as it would run were addStationStat and getRegion defined:
\* processStation returns to the station loop.
EpilogueReturns(w) ==
    /\ P(w).pc = "epilogue"
    /\ SetStats(w, StationCounted(w))
    /\ SetProc(w, [P(w) EXCEPT !.pc = "stations", !.loc = NoLocals])
    /\ UNCHANGED << fin, swapLog, hist >>
    /\ DBUnchanged

\* The station epilogue: stats.addStationStat({... region: getRegion(station.id) ...}).
\* Neither SyncStats.addStationStat nor getRegion is defined anywhere, so the call
\* throws and the exception leaves processStation.
Epilogue(w) ==
    /\ P(w).pc = "epilogue"
    /\ SetStats(w, StationCounted(w))
    /\ Throw(w, "getRegion is not defined")
    /\ UNCHANGED << fin, swapLog, hist >>
    /\ DBUnchanged

(* ------------------------------------------------------------------ *)
(* Publish step and end of main                                         *)
(* ------------------------------------------------------------------ *)

\* rpc('swap_plates_data'): replaces the production view by the staging contents
SwapRpc(by, err) ==
    /\ swapLog' = swapLog \cup {[by |-> by, count |-> Cardinality(available_plates_staging)]}
    /\ available_plates' = IF err THEN available_plates ELSE available_plates_staging

\* if (TARGET_SHARD === null) await performSwap(); else console.log(...)
Publish(w) ==
    /\ P(w).pc = "publish"
    /\ IF P(w).TARGET_SHARD = NoShard
       THEN \E err \in BOOLEAN :
              /\ SwapRpc(w, err)
              /\ SetProc(w, [P(w) EXCEPT !.pc = IF err THEN "swapFailed" ELSE "count"])
              /\ SetHist(w, [hist[w] EXCEPT !.swapInvoked = TRUE, !.swapError = err])
       ELSE /\ SetProc(w, [P(w) EXCEPT !.pc = "count"])
            /\ UNCHANGED << available_plates, swapLog, hist >>
    /\ UNCHANGED << system_configs, available_plates_staging, sync_metadata, sync_logs,
                    stats, fin >>

\* performSwap, error branch: await reportStatus('FAILED', 'Atomic Swap Failed: ...')
SwapFailed(w) ==
    /\ P(w).pc = "swapFailed"
    /\ \E err \in BOOLEAN : reportStatus("FAILED", "plates_full_sync", err)
    /\ SetProc(w, [P(w) EXCEPT !.pc = "count"])
    /\ SetHist(w, [hist[w] EXCEPT !.keys = @ \cup {"plates_full_sync"}])
    /\ UNCHANGED << system_configs, available_plates_staging, available_plates,
                    sync_logs, stats, fin, swapLog >>

\* const { count } = await supabase.from('available_plates_staging').select(count)
\* (count is null, here -1, when the query fails)
CountStaging(w) ==
    /\ P(w).pc = "count"
    /\ \E err \in BOOLEAN :
         SetProc(w, [P(w) EXCEPT !.pc = "final",
                       !.count = IF err THEN -1 ELSE Cardinality(available_plates_staging)])
    /\ UNCHANGED << stats, fin, swapLog, hist >>
    /\ DBUnchanged

\* if (count === 0 && !TARGET_SHARD) WARNING else COMPLETED
FinalStatus(w) ==
    IF P(w).count = 0 /\ ~Truthy(P(w).TARGET_SHARD) THEN "WARNING" ELSE "COMPLETED"

FinalReport(w) ==
    /\ P(w).pc = "final"
    /\ SetStats(w, [stats[w] EXCEPT !.status = FinalStatus(w)])
    /\ \E err \in BOOLEAN :
         /\ reportStatus(FinalStatus(w), syncKey(P(w).TARGET_SHARD), err)
         /\ SetHist(w, [hist[w] EXCEPT !.lastUpsert = IF err THEN "error" ELSE "ok",
                                        !.keys = @ \cup {syncKey(P(w).TARGET_SHARD)}])
    /\ SetProc(w, [P(w) EXCEPT !.pc = "close"])
    /\ UNCHANGED << system_configs, available_plates_staging, available_plates,
                    sync_logs, fin, swapLog >>

\* The catch clause without its status report.
CatchSkipsReport(w) ==
    /\ P(w).pc = "catch"
    /\ SetStats(w, addError([stats[w] EXCEPT !.status = "FAILED"], "GLOBAL"))
    /\ SetProc(w, [P(w) EXCEPT !.pc = "close"])
    /\ UNCHANGED << fin, swapLog, hist >>
    /\ DBUnchanged

\* catch (e) { stats.status = 'FAILED'; stats.addError('GLOBAL', e.message);
\*             await reportStatus('FAILED', e.message, syncKey) }
Catch(w) ==
    /\ P(w).pc = "catch"
    /\ SetStats(w, addError([stats[w] EXCEPT !.status = "FAILED"], "GLOBAL"))
    /\ \E err \in BOOLEAN :
         /\ reportStatus("FAILED", syncKey(P(w).TARGET_SHARD), err)
         /\ SetHist(w, [hist[w] EXCEPT !.lastUpsert = IF err THEN "error" ELSE "ok",
                                        !.keys = @ \cup {syncKey(P(w).TARGET_SHARD)}])
    /\ SetProc(w, [P(w) EXCEPT !.pc = "close"])
    /\ UNCHANGED << system_configs, available_plates_staging, available_plates,
                    sync_logs, fin, swapLog >>

\* finally { try { await browser.close() } catch (err) { log } ...
CloseBrowser(w) ==
    /\ P(w).pc = "close"
    /\ \E ok \in BOOLEAN :
         SetProc(w, [P(w) EXCEPT !.pc = "save",
                       !.browser = IF ok THEN "closed" ELSE @])
    /\ SetHist(w, [hist[w] EXCEPT !.closeCalled = TRUE])
    /\ UNCHANGED << stats, fin, swapLog >>
    /\ DBUnchanged

\* ... await stats.save(); process.exit(0) }
SaveStats(w) ==
    /\ P(w).pc = "save"
    /\ \E err \in BOOLEAN :
         sync_logs' = IF err THEN sync_logs ELSE [sync_logs EXCEPT ![w] = << stats[w] >>]
    /\ SetHist(w, [hist[w] EXCEPT !.saveCalled = TRUE])
    /\ SetProc(w, [P(w) EXCEPT !.pc = "exited", !.exitCode = 0])
    /\ UNCHANGED << system_configs, available_plates_staging, available_plates,
                    sync_metadata, stats, fin, swapLog >>

(* ------------------------------------------------------------------ *)
(* The finalizer trigger_swap.cjs                                       *)
(* ------------------------------------------------------------------ *)

\* count query; countError -> exit(1); count === 0 -> return without swapping
FinCount ==
    /\ fin.pc = "count"
    /\ \E err \in BOOLEAN :
         LET count == Cardinality(available_plates_staging) IN
         fin' = IF err THEN [fin EXCEPT !.pc = "exited", !.exitCode = 1]
                ELSE IF count = 0
                     THEN [fin EXCEPT !.pc = "exited", !.exitCode = 0, !.count = count]
                     ELSE [fin EXCEPT !.pc = "swap", !.count = count]
    /\ UNCHANGED << proc, stats, swapLog, hist >>
    /\ DBUnchanged

\* rpc('swap_plates_data'); error -> exit(1)
FinSwap ==
    /\ fin.pc = "swap"
    /\ \E err \in BOOLEAN :
         /\ SwapRpc("finalizer", err)
         /\ fin' = IF err THEN [fin EXCEPT !.pc = "exited", !.exitCode = 1]
                   ELSE [fin EXCEPT !.pc = "report"]
    /\ UNCHANGED << system_configs, available_plates_staging, sync_metadata, sync_logs,
                    proc, stats, hist >>

\* upsert { key: 'plates_full_sync', status: 'COMPLETED' }; its error is ignored
FinReport ==
    /\ fin.pc = "report"
    /\ \E err \in BOOLEAN : reportStatus("COMPLETED", "plates_full_sync", err)
    /\ fin' = [fin EXCEPT !.pc = "exited", !.exitCode = 0]
    /\ UNCHANGED << system_configs, available_plates_staging, available_plates,
                    sync_logs, proc, stats, swapLog, hist >>

(* ------------------------------------------------------------------ *)
(* Specifications                                                       *)
(* ------------------------------------------------------------------ *)

AuxInit ==
    /\ solverCalls = [w \in Workers |-> 0]
    /\ lastInsert = [w \in Workers |-> NoInsert]
    /\ captcha = [w \in Workers |-> NewCaptcha]
    /\ pacing = NoPacing
    /\ limiter = NewLimiter
    /\ pager = NoPager
    /\ race = NoRace
    /\ solver = NoSolver
    /\ throttle = NoThrottle

InitStore ==
    /\ system_configs \in StationConfigs
    /\ available_plates_staging \in StagingChoices
    /\ available_plates \in ProductionChoices
    /\ sync_metadata = [k \in SyncKeys |-> "none"]
    /\ sync_logs = [w \in Workers |-> << >>]
    /\ stats = [w \in Workers |-> NewStats]
    /\ hist = [w \in Workers |-> NewHist]
    /\ AuxInit
    /\ swapLog = {}

\* One worker, unsharded or bound to a shard; the finalizer belongs to sharded operation.
Init ==
    /\ InitStore
    /\ \E shard \in {NoShard, "A"} :
         /\ proc = [w \in Workers |-> IF w = 1 THEN NewProc(shard) ELSE OffProc]
         /\ fin = [pc |-> IF shard = NoShard THEN "off" ELSE "count",
                   count |-> -1, exitCode |-> -1]

\* Control points whose next step touches only the worker's own browser session,
\* solver and locals, never the data store.
LocalPcs == {"launch", "setup", "stations", "types", "nav", "form", "outer", "inner",
             "paginate", "epilogue", "close"}

\* Steps between two data-store calls of one process commute with every step of the
\* other processes, so a process inside such a stretch is run up to its next
\* data-store call before another process is scheduled.
Scheduled(others) == \A v \in others : P(v).pc \notin LocalPcs

Run(w) == Scheduled(Workers \ {w}) /\ UNCHANGED aux

Next ==
    \/ \E w \in Workers : Run(w) /\ LoadStationData(w)
    \/ \E w \in Workers : Run(w) /\ Launch(w)
    \/ \E w \in Workers : Run(w) /\ SetupPage(w)
    \/ \E w \in Workers : Run(w) /\ ReportRunning(w)
    \/ \E w \in Workers : Run(w) /\ ClearStaging(w)
    \/ \E w \in Workers : Run(w) /\ StationLoop(w)
    \/ \E w \in Workers : Run(w) /\ PreClear(w)
    \/ \E w \in Workers : Run(w) /\ TypeLoop(w)
    \/ \E w \in Workers : Run(w) /\ Navigate(w)
    \/ \E w \in Workers : Run(w) /\ SelectForm(w)
    \/ \E w \in Workers : Run(w) /\ OuterAttempt(w)
    \/ \E w \in Workers : Run(w) /\ SolveAttempt(w)
    \/ \E w \in Workers : Run(w) /\ NoCode(w)
    \/ \E w \in Workers : Run(w) /\ Submit(w)
    \/ \E w \in Workers : Run(w) /\ Abandon(w)
    \/ \E w \in Workers : Run(w) /\ Accepted(w)
    \/ \E w \in Workers : Run(w) /\ Paginate(w)
    \/ \E w \in Workers : Run(w) /\ Stage(w)
    \/ \E w \in Workers : Run(w) /\ Epilogue(w)
    \/ \E w \in Workers : Run(w) /\ Publish(w)
    \/ \E w \in Workers : Run(w) /\ SwapFailed(w)
    \/ \E w \in Workers : Run(w) /\ CountStaging(w)
    \/ \E w \in Workers : Run(w) /\ FinalReport(w)
    \/ \E w \in Workers : Run(w) /\ Catch(w)
    \/ \E w \in Workers : Run(w) /\ CloseBrowser(w)
    \/ \E w \in Workers : Run(w) /\ SaveStats(w)
    \/ Scheduled(Workers) /\ UNCHANGED aux /\ FinCount
    \/ Scheduled(Workers) /\ UNCHANGED aux /\ FinSwap
    \/ Scheduled(Workers) /\ UNCHANGED aux /\ FinReport

Spec == Init /\ [][Next]_vars

(* ------------------------------------------------------------------ *)
(* Two shard workers running concurrently                               *)
(* ------------------------------------------------------------------ *)

\* Shard A holds station 30 of department 3, shard B station 21 of department 2.
ShardOf(w) == IF w = 1 THEN "A" ELSE "B"

\* Both workers have reported RUNNING and are at the call of processStation for
\* their first station; staging holds the rows of an earlier run.
InitShards ==
    /\ system_configs =
         << [id |-> "3", stations |-> <<S30>>], [id |-> "2", stations |-> <<S21>>] >>
    /\ available_plates_staging \in StagingChoices \ {{}}
    /\ available_plates \in ProductionChoices
    /\ sync_metadata = [k \in SyncKeys |->
                          IF k = "plates_full_sync" THEN "none" ELSE "RUNNING"]
    /\ sync_logs = [w \in Workers |-> << >>]
    /\ stats = [w \in Workers |-> NewStats]
    /\ hist = [w \in Workers |-> [NewHist EXCEPT !.reportedRunning = TRUE,
                                                  !.keys = {syncKey(ShardOf(w))}]]
    /\ swapLog = {}
    /\ AuxInit
    /\ proc = [w \in Workers |->
                 [NewProc(ShardOf(w)) EXCEPT
                    !.pc = "preclear", !.browser = "open", !.idx = 1,
                    !.TARGET_DEPTS = LoadTargets(system_configs, ShardOf(w))]]
    /\ fin = [pc |-> "off", count |-> -1, exitCode |-> -1]

NextShards ==
    \/ \E w \in Workers : Run(w) /\ PreClear(w)
    \/ \E w \in Workers : Run(w) /\ TypeLoop(w)
    \/ \E w \in Workers : Run(w) /\ Navigate(w)
    \/ \E w \in Workers : Run(w) /\ SelectForm(w)
    \/ \E w \in Workers : Run(w) /\ OuterAttempt(w)
    \/ \E w \in Workers : Run(w) /\ SolveAttempt(w)
    \/ \E w \in Workers : Run(w) /\ NoCode(w)
    \/ \E w \in Workers : Run(w) /\ Submit(w)
    \/ \E w \in Workers : Run(w) /\ Abandon(w)
    \/ \E w \in Workers : Run(w) /\ Accepted(w)
    \/ \E w \in Workers : Run(w) /\ Paginate(w)
    \/ \E w \in Workers : Run(w) /\ Stage(w)
    \/ \E w \in Workers : Run(w) /\ Epilogue(w)

SpecShards == InitShards /\ [][NextShards]_vars

(* ------------------------------------------------------------------ *)
(* One processStation call, with the solver invocations counted         *)
(* ------------------------------------------------------------------ *)

\* Worker 1 of an unsharded run at the call of processStation for its first station.
InitQuery ==
    /\ InitStore
    /\ system_configs = << [id |-> "2", stations |-> <<S20, S21>>] >>
    /\ proc = [w \in Workers |->
                 IF w = 1
                 THEN [NewProc(NoShard) EXCEPT
                         !.pc = "preclear", !.browser = "open", !.idx = 1,
                         !.TARGET_DEPTS = LoadTargets(system_configs, NoShard)]
                 ELSE OffProc]
    /\ fin = [pc |-> "off", count |-> -1, exitCode |-> -1]

Counted(w, n) == solverCalls' = [solverCalls EXCEPT ![w] = n]

\* The collected sequence a staging insert was made from, and the rows it added.
Inserted(w) ==
    lastInsert' = [lastInsert EXCEPT ![w] =
                     IF available_plates_staging' = available_plates_staging THEN @
                     ELSE [plates |-> L(w).collectedPlates,
                           rows |-> available_plates_staging' \ available_plates_staging]]

Uninserted(w) == lastInsert' = [lastInsert EXCEPT ![w] = NoInsert]

Uncounted == UNCHANGED << solverCalls, lastInsert, captcha, pacing, limiter, throttle, solver, race, pager >>

NextQuery ==
    \/ \E w \in Workers : PreClear(w) /\ Uncounted
    \/ \E w \in Workers : TypeLoop(w) /\ Counted(w, 0) /\ Uninserted(w)
                              /\ UNCHANGED << captcha, pacing, limiter, throttle, solver, race, pager >>
    \/ \E w \in Workers : Navigate(w) /\ Uncounted
    \/ \E w \in Workers : SelectForm(w) /\ Uncounted
    \/ \E w \in Workers : OuterAttempt(w) /\ Uncounted
    \/ \E w \in Workers : SolveAttempt(w) /\ Counted(w, solverCalls[w] + 1)
                              /\ UNCHANGED << lastInsert, captcha, pacing, limiter, throttle, solver, race, pager >>
    \/ \E w \in Workers : NoCode(w) /\ Uncounted
    \/ \E w \in Workers : Submit(w) /\ Uncounted
    \/ \E w \in Workers : Abandon(w) /\ Uncounted
    \/ \E w \in Workers : Accepted(w) /\ Uncounted
    \/ \E w \in Workers : Paginate(w) /\ Uncounted
    \/ \E w \in Workers : Stage(w) /\ Inserted(w)
                              /\ UNCHANGED << solverCalls, captcha, pacing, limiter, throttle, solver, race, pager >>
    \/ \E w \in Workers : Epilogue(w) /\ Uncounted

SpecQuery == InitQuery /\ [][NextQuery]_vars

(* ------------------------------------------------------------------ *)
(* Two workers started with a shard argument                            *)
(* ------------------------------------------------------------------ *)

\* The values of --shard= the two workers are started with.
Labels(w) == IF w = 1 THEN {"A", EmptyLabel} ELSE {"B"}

\* The roster holds no station: each worker reports RUNNING and then COMPLETED, or
\* FAILED when the page setup throws.
InitKeys ==
    /\ system_configs = << >>
    /\ available_plates_staging \in StagingChoices
    /\ available_plates \in ProductionChoices
    /\ sync_metadata = [k \in SyncKeys |-> "none"]
    /\ sync_logs = [w \in Workers |-> << >>]
    /\ stats = [w \in Workers |-> NewStats]
    /\ hist = [w \in Workers |-> NewHist]
    /\ AuxInit
    /\ swapLog = {}
    /\ fin = [pc |-> "off", count |-> -1, exitCode |-> -1]
    /\ proc \in [Workers -> UNION {{NewProc(l) : l \in Labels(w)} : w \in Workers}]
    /\ \A w \in Workers : proc[w].TARGET_SHARD \in Labels(w)

NextKeys ==
    \/ \E w \in Workers : Run(w) /\ LoadStationData(w)
    \/ \E w \in Workers : Run(w) /\ Launch(w)
    \/ \E w \in Workers : Run(w) /\ SetupPage(w)
    \/ \E w \in Workers : Run(w) /\ ReportRunning(w)
    \/ \E w \in Workers : Run(w) /\ StationLoop(w)
    \/ \E w \in Workers : Run(w) /\ Publish(w)
    \/ \E w \in Workers : Run(w) /\ CountStaging(w)
    \/ \E w \in Workers : Run(w) /\ FinalReport(w)
    \/ \E w \in Workers : Run(w) /\ Catch(w)
    \/ \E w \in Workers : Run(w) /\ CloseBrowser(w)
    \/ \E w \in Workers : Run(w) /\ SaveStats(w)

SpecKeys == InitKeys /\ [][NextKeys]_vars

(* ------------------------------------------------------------------ *)
(* One single-plate-type station, with the CAPTCHA counters of SyncStats *)
(* ------------------------------------------------------------------ *)

\* Worker 1 of an unsharded run at the call of processStation for station 21, which
\* has the private plate type only.
InitScenario ==
    /\ InitStore
    /\ system_configs =
         << [id |-> "3", stations |-> <<S30>>], [id |-> "2", stations |-> <<S21>>] >>
    /\ proc = [w \in Workers |->
                 IF w = 1
                 THEN [NewProc(NoShard) EXCEPT
                         !.pc = "preclear", !.browser = "open", !.idx = 1,
                         !.TARGET_DEPTS = LoadTargets(system_configs, NoShard)]
                 ELSE OffProc]
    /\ fin = [pc |-> "off", count |-> -1, exitCode |-> -1]

\* solveCaptcha: stats.captchaAttempts++; ... if (text && text.length === 4)
\* stats.captchaSuccess++   (the same test that makes the caller keep the code)
SolveCounted(w) ==
    captcha' = [captcha EXCEPT ![w] =
                  [captchaAttempts |-> @.captchaAttempts + 1,
                   captchaSuccess |-> @.captchaSuccess + IF proc'[w].loc.code THEN 1 ELSE 0]]

NextScenario ==
    \/ \E w \in Workers : PreClear(w) /\ UNCHANGED aux
    \/ \E w \in Workers : TypeLoop(w) /\ UNCHANGED aux
    \/ \E w \in Workers : Navigate(w) /\ UNCHANGED aux
    \/ \E w \in Workers : SelectForm(w) /\ UNCHANGED aux
    \/ \E w \in Workers : OuterAttempt(w) /\ UNCHANGED aux
    \/ \E w \in Workers : SolveAttempt(w) /\ SolveCounted(w)
                              /\ UNCHANGED << solverCalls, lastInsert, pacing, limiter, throttle, solver, race, pager >>
    \/ \E w \in Workers : NoCode(w) /\ UNCHANGED aux
    \/ \E w \in Workers : Submit(w) /\ UNCHANGED aux
    \/ \E w \in Workers : Abandon(w) /\ UNCHANGED aux
    \/ \E w \in Workers : Accepted(w) /\ UNCHANGED aux
    \/ \E w \in Workers : Paginate(w) /\ UNCHANGED aux
    \/ \E w \in Workers : Stage(w) /\ UNCHANGED aux
    \/ \E w \in Workers : Epilogue(w) /\ UNCHANGED aux

SpecScenario == InitScenario /\ [][NextScenario]_vars

(* ------------------------------------------------------------------ *)
(* adaptiveSleep                                                        *)
(* ------------------------------------------------------------------ *)

\* The multiplier with both boundary latencies taken out of the 1.0 case.
multiplierInclusive(latency) ==
    IF latency <= 1500 THEN <<3, 4>>
    ELSE IF latency >= 4000 THEN <<3, 2>>
    ELSE <<1, 1>>

\* let multiplier = 1.0; if (latency < 1500) multiplier = 0.75;
\* else if (latency > 4000) multiplier = 1.5      (as numerator and denominator)
multiplier(latency) ==
    IF latency < 1500 THEN <<3, 4>>
    ELSE IF latency > 4000 THEN <<3, 2>>
    ELSE <<1, 1>>

\* Math.floor(x * multiplier) for a non-negative integer x
floorScaled(x, m) == (x * m[1]) \div m[2]

\* The (min, max) arguments of the call sites of adaptiveSleep in processStation, and
\* two small pairs that are not multiples of 4.
PacingBounds ==
    { <<800, 1500>>, <<800, 1200>>, <<600, 1000>>, <<400, 800>>, <<1, 1>>, <<3, 5>> }

\* Values of lastLatency: the assumed 2000 and 5000, and measured ones around the
\* two thresholds.
Latencies == {0, 1000, 1499, 1500, 1501, 2000, 2500, 3999, 4000, 4001, 5000}

\* adaptiveSleep(min, max, latency): randomSleep(finalMin, finalMax) sleeps a whole
\* number of milliseconds between the two applied bounds.
AdaptiveSleep ==
    /\ ~pacing.called
    /\ LET finalMin == floorScaled(pacing.min, multiplier(pacing.latency))
           finalMax == floorScaled(pacing.max, multiplier(pacing.latency))
       IN  \E ms \in {finalMin, finalMax} :
              pacing' = [pacing EXCEPT !.finalMin = finalMin, !.finalMax = finalMax,
                                       !.called = TRUE, !.ms = ms]
    /\ UNCHANGED << system_configs, available_plates_staging, available_plates,
                    sync_metadata, sync_logs, proc, stats, fin, swapLog, hist,
                    solverCalls, lastInsert, captcha, limiter, throttle, solver, race, pager >>

\* No worker process is running; the data store is as at the start.
InitParked ==
    /\ system_configs = << >>
    /\ available_plates_staging = {}
    /\ available_plates \in ProductionChoices
    /\ sync_metadata = [k \in SyncKeys |-> "none"]
    /\ sync_logs = [w \in Workers |-> << >>]
    /\ stats = [w \in Workers |-> NewStats]
    /\ hist = [w \in Workers |-> NewHist]
    /\ swapLog = {}
    /\ proc = [w \in Workers |-> OffProc]
    /\ fin = [pc |-> "off", count |-> -1, exitCode |-> -1]

InitPacing ==
    /\ InitParked
    /\ solverCalls = [w \in Workers |-> 0]
    /\ lastInsert = [w \in Workers |-> NoInsert]
    /\ captcha = [w \in Workers |-> NewCaptcha]
    /\ limiter = NewLimiter
    /\ pager = NoPager
    /\ race = NoRace
    /\ solver = NoSolver
    /\ throttle = NoThrottle
    /\ \E b \in PacingBounds, latency \in Latencies :
         pacing = [NoPacing EXCEPT !.min = b[1], !.max = b[2], !.latency = latency]

NextPacing == AdaptiveSleep

SpecPacing == InitPacing /\ [][NextPacing]_vars

(* ------------------------------------------------------------------ *)
(* RateLimiter                                                          *)
(* ------------------------------------------------------------------ *)

\* Time passed between two calls of wait(), and the lateness of the timer of the
\* exhausted branch, in ms.
Elapsed == {0, 20000, 60000, 60001}
TimerLate == {0, 7}

\* if (now - this.lastRefill > this.interval) { tokens = limit; lastRefill = now }
RefillByTime(lim, now) ==
    IF now - lim.lastRefill > interval
    THEN [lim EXCEPT !.tokens = limit, !.lastRefill = now, !.now = now, !.grants = 0]
    ELSE [lim EXCEPT !.now = now]

\* wait() whose exhausted branch sleeps but does not refill.
RateLimiterWaitNoRefill ==
    \E dt \in Elapsed, late \in TimerLate :
        /\ limiter.now + dt <= MaxClock
        /\ LET l1 == RefillByTime(limiter, limiter.now + dt)
               waitTime == interval - (l1.now - l1.lastRefill) + 1000
               l2 == IF l1.tokens <= 0
                     THEN [l1 EXCEPT !.now = l1.now + waitTime + late]
                     ELSE l1
           IN  limiter' = [l2 EXCEPT !.tokens = @ - 1, !.grants = @ + 1,
                                     !.found = l1.tokens, !.refilled = FALSE]
        /\ UNCHANGED << system_configs, available_plates_staging, available_plates,
                        sync_metadata, sync_logs, proc, stats, fin, swapLog, hist,
                        solverCalls, lastInsert, captcha, pacing, throttle, solver, race, pager >>

\* async wait(): the time-based refill, then, when no token is left, the sleep of
\* waitTime followed by a refill, then this.tokens--
RateLimiterWait ==
    \E dt \in Elapsed, late \in TimerLate :
        /\ limiter.now + dt <= MaxClock
        /\ LET l1 == RefillByTime(limiter, limiter.now + dt)
               waitTime == interval - (l1.now - l1.lastRefill) + 1000
               l2 == IF l1.tokens <= 0
                     THEN [l1 EXCEPT !.tokens = limit, !.grants = 0,
                                     !.now = l1.now + waitTime + late,
                                     !.lastRefill = l1.now + waitTime + late]
                     ELSE l1
           IN  limiter' = [l2 EXCEPT !.tokens = @ - 1, !.grants = @ + 1,
                                     !.found = l1.tokens, !.refilled = (l1.tokens <= 0)]
        /\ UNCHANGED << system_configs, available_plates_staging, available_plates,
                        sync_metadata, sync_logs, proc, stats, fin, swapLog, hist,
                        solverCalls, lastInsert, captcha, pacing, throttle, solver, race, pager >>

InitLimiter ==
    /\ InitParked
    /\ AuxInit

NextLimiter == RateLimiterWait

SpecLimiter == InitLimiter /\ [][NextLimiter]_vars

(* ------------------------------------------------------------------ *)
(* The pacing of a station's first query up to the CAPTCHA loop         *)
(* ------------------------------------------------------------------ *)

HIGH_RISK_STATIONS ==
    {"20", "21", "25", "26", "28", "40", "43", "44", "52", "54", "60", "63", "64",
     "65", "70", "72", "73", "74", "75", "76", "80", "81", "82", "83", "84"}

\* const isHighRisk = HIGH_RISK_STATIONS.includes(station.id)
isHighRisk(station) == station \in HIGH_RISK_STATIONS

\* let lastLatency = isHighRisk ? 5000 : 2000
lastLatency(station) == IF isHighRisk(station) THEN 5000 ELSE 2000

\* The (min, max) arguments of the adaptiveSleep calls between page.goto and the
\* CAPTCHA loop, in program order; the last one follows the typeExists check.
FormSleeps ==
    << <<800, 1500>>, <<800, 1200>>, <<800, 1200>>, <<600, 1000>>, <<400, 800>>,
       <<800, 1500>>, <<600, 1000>> >>

\* processStation(page, deptId, station) is entered for a station of the roster.
InitThrottle ==
    /\ InitParked
    /\ solverCalls = [w \in Workers |-> 0]
    /\ lastInsert = [w \in Workers |-> NoInsert]
    /\ captcha = [w \in Workers |-> NewCaptcha]
    /\ pacing = NoPacing
    /\ limiter = NewLimiter
    /\ pager = NoPager
    /\ race = NoRace
    /\ solver = NoSolver
    /\ \E st \in {S20, S21, S30} :
         throttle = [NoThrottle EXCEPT !.pc = "enter", !.station = st.id]

ThrottleOnly ==
    UNCHANGED << system_configs, available_plates_staging, available_plates,
                 sync_metadata, sync_logs, proc, stats, fin, swapLog, hist,
                 solverCalls, lastInsert, captcha, pacing, limiter, solver, race, pager >>

\* const isHighRisk = ...; let lastLatency = isHighRisk ? 5000 : 2000; then the first
\* plate type's navigation loop starts with navAttempts = 0
EnterStation ==
    /\ throttle.pc = "enter"
    /\ throttle' = [throttle EXCEPT !.pc = "goto",
                                    !.lastLatency = lastLatency(throttle.station)]
    /\ ThrottleOnly

\* One pass of while (navAttempts < 3 && !navSuccess): page.goto succeeds and
\* lastLatency = Date.now() - navStart, or it throws and the third failure is rethrown.
TimedGoto ==
    /\ throttle.pc = "goto"
    /\ throttle.navAttempts < maxNavAttempts
    /\ \E ok \in BOOLEAN, measured \in Latencies :
         LET n == throttle.navAttempts + 1 IN
         throttle' = IF ok
                     THEN [throttle EXCEPT !.pc = "form", !.navAttempts = n,
                                           !.lastLatency = measured]
                     ELSE [throttle EXCEPT !.navAttempts = n,
                             !.pc = IF n < maxNavAttempts THEN "goto" ELSE "thrown"]
    /\ ThrottleOnly

\* await adaptiveSleep(min, max, lastLatency) after a form selection; before the last
\* one the plate-type option may be absent and the query is skipped.
FormSleep ==
    /\ throttle.pc = "form"
    /\ LET k == Len(throttle.sleeps) + 1
           m == multiplier(throttle.lastLatency)
           call == [min |-> FormSleeps[k][1], max |-> FormSleeps[k][2],
                    latency |-> throttle.lastLatency, multiplier |-> m,
                    finalMin |-> floorScaled(FormSleeps[k][1], m),
                    finalMax |-> floorScaled(FormSleeps[k][2], m)]
       IN  \E typeExists \in BOOLEAN :
             throttle' =
               IF k = Len(FormSleeps) /\ ~typeExists
               THEN [throttle EXCEPT !.pc = "skipped"]
               ELSE [throttle EXCEPT !.sleeps = Append(@, call),
                       !.pc = IF k = Len(FormSleeps) THEN "captcha" ELSE "form"]
    /\ ThrottleOnly

NextThrottle ==
    \/ EnterStation
    \/ TimedGoto
    \/ FormSleep

SpecThrottle == InitThrottle /\ [][NextThrottle]_vars

(* ------------------------------------------------------------------ *)
(* The CAPTCHA retry loop with the solver's answers                     *)
(* ------------------------------------------------------------------ *)

\* The characters the regular expression [A-Z0-9] matches.
AZ09 ==
    {"A", "B", "C", "D", "E", "F", "G", "H", "I", "J", "K", "L", "M", "N", "O", "P",
     "Q", "R", "S", "T", "U", "V", "W", "X", "Y", "Z",
     "0", "1", "2", "3", "4", "5", "6", "7", "8", "9"}

\* Characters String.prototype.trim removes at both ends.
WhiteSpace == {" ", "\n"}

\* Answers of the recognition model, as sequences of characters ("e-acute" and
\* "E-ACUTE" stand for the single letters U+00E9 and U+00C9).
Responses ==
    { <<"A", "B", "1", "2">>,
      <<"a", "b", "1", "2">>,
      <<" ", "A", "B", "1", "2", "\n">>,
      <<"A", "B", "-", "1", "2">>,
      <<"A", "B", "-", "1">>,
      <<"A", "B", "1">>,
      <<"A", "B", "1", "2", "3">>,
      <<"e-acute", "B", "1", "2">>,
      << >> }

\* Messages of the errors thrown inside solveCaptcha's try block.
SolverErrors == {"503 Service Unavailable", "Overloaded", "CAPTCHA image not found"}

\* aiError.message.includes('503') || aiError.message.includes('Overloaded')
isOverload(message) == message \in {"503 Service Unavailable", "Overloaded"}

RECURSIVE trimStart(_)
trimStart(text) ==
    IF text # << >> /\ Head(text) \in WhiteSpace THEN trimStart(Tail(text)) ELSE text

RECURSIVE trimEnd(_)
trimEnd(text) ==
    IF text # << >> /\ text[Len(text)] \in WhiteSpace
    THEN trimEnd(SubSeq(text, 1, Len(text) - 1))
    ELSE text

\* String.prototype.trim
trim(text) == trimEnd(trimStart(text))

\* String.prototype.toUpperCase, character by character
toUpperCase(text) ==
    [i \in 1..Len(text) |->
       CASE text[i] = "a" -> "A"
         [] text[i] = "b" -> "B"
         [] text[i] = "e-acute" -> "E-ACUTE"
         [] OTHER -> text[i]]

\* The answer upper-cased and trimmed but with every character kept.
cleanKeepsAll(text) == toUpperCase(trim(text))

\* response.text().trim().toUpperCase().replace(/[^A-Z0-9]/g, '')
clean(text) == SelectSeq(toUpperCase(trim(text)), LAMBDA c : c \in AZ09)

\* solveCaptcha(page): the cleaned text, or null (here the empty record field with
\* isNull set) when anything inside its try block throws; it never throws itself.
solveCaptcha(response, error) ==
    IF error # "none"
    THEN [isNull |-> TRUE, text |-> << >>, thrown |-> "none"]
    ELSE [isNull |-> FALSE, text |-> clean(response), thrown |-> "none"]

InitCaptcha ==
    /\ InitParked
    /\ solverCalls = [w \in Workers |-> 0]
    /\ lastInsert = [w \in Workers |-> NoInsert]
    /\ captcha = [w \in Workers |-> NewCaptcha]
    /\ pacing = NoPacing
    /\ limiter = NewLimiter
    /\ pager = NoPager
    /\ race = NoRace
    /\ throttle = NoThrottle
    /\ solver = [NoSolver EXCEPT !.pc = "outer"]

SolverOnly ==
    UNCHANGED << system_configs, available_plates_staging, available_plates,
                 sync_metadata, sync_logs, proc, stats, fin, swapLog, hist,
                 solverCalls, lastInsert, captcha, pacing, limiter, throttle, race, pager >>

\* while (attempts < maxQueryAttempts && !success) { attempts++; let code = null;
\* let captchaAttempts = 0; ...
CaptchaOuter ==
    /\ solver.pc = "outer"
    /\ solver.attempts < maxQueryAttempts /\ ~solver.success
    /\ solver' = [solver EXCEPT !.pc = "inner", !.attempts = @ + 1, !.code = << >>,
                                !.captchaAttempts = 0, !.error = "none",
                                !.cooldown = FALSE]
    /\ SolverOnly

\* One pass of while (!code && captchaAttempts < 5): try { rawCode = solveCaptcha();
\* if (rawCode && rawCode.length === 4) code = rawCode } catch (aiError) { if the
\* message has '503' or 'Overloaded': sleep(30000) }
CaptchaSolve ==
    /\ solver.pc = "inner"
    /\ solver.code = << >> /\ solver.captchaAttempts < maxCaptchaAttempts
    /\ \E response \in Responses, error \in SolverErrors \cup {"none"} :
         LET rawCode == solveCaptcha(response, error) IN
         solver' = [solver EXCEPT
                      !.captchaAttempts = @ + 1,
                      !.error = error,
                      !.code = IF rawCode.thrown = "none" /\ ~rawCode.isNull
                                  /\ rawCode.text # << >> /\ Len(rawCode.text) = 4
                               THEN rawCode.text ELSE << >>,
                      !.cooldown = rawCode.thrown # "none" /\ isOverload(rawCode.thrown)]
    /\ SolverOnly

\* if (!code) continue;
CaptchaNoCode ==
    /\ solver.pc = "inner"
    /\ solver.code = << >> /\ ~(solver.captchaAttempts < maxCaptchaAttempts)
    /\ solver' = [solver EXCEPT !.pc = "outer", !.skipped = @ + 1]
    /\ SolverOnly

\* await humanType(page, '#validateStr', code); await doSubmit(page); the portal
\* renders the results or rejects the code
CaptchaSubmit ==
    /\ solver.pc = "inner"
    /\ solver.code # << >>
    /\ \E accepted \in BOOLEAN :
         solver' = [solver EXCEPT !.pc = "outer", !.typed = solver.code,
                                  !.submissions = @ + 1, !.success = accepted]
    /\ SolverOnly

NextCaptcha ==
    \/ CaptchaOuter
    \/ CaptchaSolve
    \/ CaptchaNoCode
    \/ CaptchaSubmit

SpecCaptcha == InitCaptcha /\ [][NextCaptcha]_vars

(* ------------------------------------------------------------------ *)
(* The wait for the result of one CAPTCHA submission                    *)
(* ------------------------------------------------------------------ *)

\* const resultWaitTimeout = 30000
resultWaitTimeout == 30000

\* Milliseconds since queryStart at which something is observed.
Instants == {0, 10, 500, 2000, 5000, 15000, 29999, 30000}

\* page.on('dialog', dialogHandler); queryStart = Date.now(); await doSubmit(page);
\* waitForFunction is pending
InitRace ==
    /\ InitParked
    /\ solverCalls = [w \in Workers |-> 0]
    /\ lastInsert = [w \in Workers |-> NoInsert]
    /\ captcha = [w \in Workers |-> NewCaptcha]
    /\ pacing = NoPacing
    /\ limiter = NewLimiter
    /\ pager = NoPager
    /\ throttle = NoThrottle
    /\ solver = NoSolver
    /\ race = [NoRace EXCEPT !.pc = "waiting", !.listening = TRUE]

RaceOnly ==
    UNCHANGED << system_configs, available_plates_staging, available_plates,
                 sync_metadata, sync_logs, proc, stats, fin, swapLog, hist,
                 solverCalls, lastInsert, captcha, pacing, limiter, throttle, solver, pager >>

\* Time passes while waitForFunction is pending, up to its timeout.
Elapse ==
    /\ race.pc = "waiting"
    /\ \E t \in Instants :
         /\ t > race.now /\ t <= resultWaitTimeout
         /\ race' = [race EXCEPT !.now = t]
    /\ RaceOnly

\* dialogHandler: alertMsg = dialog.message(); await dialog.dismiss()
\* It only records the message; the pending waitForFunction is not touched.
DialogHandler ==
    /\ race.listening /\ ~race.alertMsg
    /\ race' = [race EXCEPT !.alertMsg = TRUE, !.alertAt = race.now,
                            !.first = IF @ = "none" THEN "alert" ELSE @]
    /\ RaceOnly

\* waitForFunction resolves (a result cell or the no-data text is in the page):
\* if (alertMsg) log the alert, else success = true
ResultsRendered ==
    /\ race.pc = "waiting" /\ race.now < resultWaitTimeout
    /\ race' = [race EXCEPT !.pc = "decided", !.decidedAt = race.now,
                            !.success = ~race.alertMsg,
                            !.outcome = IF race.alertMsg THEN "REJECTED" ELSE "ACCEPTED",
                            !.first = IF @ = "none" THEN "results" ELSE @]
    /\ RaceOnly

\* waitForFunction rejects after resultWaitTimeout:
\* catch (e) { if (alertMsg) log the alert, else log the result timeout }
WaitTimedOut ==
    /\ race.pc = "waiting" /\ race.now = resultWaitTimeout
    /\ race' = [race EXCEPT !.pc = "decided", !.decidedAt = race.now,
                            !.outcome = IF race.alertMsg THEN "REJECTED" ELSE "TIMED_OUT",
                            !.first = IF @ = "none" THEN "timeout" ELSE @]
    /\ RaceOnly

\* page.off('dialog', dialogHandler)
HandlerOff ==
    /\ race.pc = "decided"
    /\ race' = [race EXCEPT !.pc = "done", !.listening = FALSE]
    /\ RaceOnly

NextRace ==
    \/ Elapse
    \/ DialogHandler
    \/ ResultsRendered
    \/ WaitTimedOut
    \/ HandlerOff

SpecRace == InitRace /\ [][NextRace]_vars

(* ------------------------------------------------------------------ *)
(* The pagination loop of one accepted query                            *)
(* ------------------------------------------------------------------ *)

\* The iterations of while (hasNext) that are counted one by one; the counters stay
\* at MaxReads from there on.
MaxReads == 3

\* The page markers a result page can show: none, or "current / total".
PageMarkers ==
    { [present |-> FALSE, current |-> 0, total |-> 0] }
    \cup { [present |-> TRUE, current |-> c, total |-> t]
           : c \in {1, 2}, t \in {1, 2, 3} }

\* A rendered result page: the no-data text, the page marker, whether a next-page
\* control exists and the number of .number_cell rows.
RenderedPages ==
    { [noData |-> TRUE, marker |-> [present |-> FALSE, current |-> 0, total |-> 0],
       next |-> FALSE, rows |-> 0] }
    \cup { [noData |-> FALSE, marker |-> m, next |-> n, rows |-> k]
           : m \in PageMarkers, n \in BOOLEAN, k \in {0, 2} }

\* let current = 1; let total = 1; if (pageMatch) { current = ...; total = ... }
pageMatch(page) ==
    [noData |-> page.noData,
     current |-> IF page.marker.present THEN page.marker.current ELSE 1,
     total |-> IF page.marker.present THEN page.marker.total ELSE 1,
     next |-> page.next]

\* A counter of the loop, counted up to MaxReads.
Saturating(n) == IF n < MaxReads THEN n + 1 ELSE n

\* if (success) { let hasNext = true; while (hasNext) ...
InitPager ==
    /\ InitParked
    /\ solverCalls = [w \in Workers |-> 0]
    /\ lastInsert = [w \in Workers |-> NoInsert]
    /\ captcha = [w \in Workers |-> NewCaptcha]
    /\ pacing = NoPacing
    /\ limiter = NewLimiter
    /\ throttle = NoThrottle
    /\ solver = NoSolver
    /\ race = NoRace
    /\ pager = [NoPager EXCEPT !.pc = "loop", !.hasNext = TRUE]

PagerOnly ==
    UNCHANGED << system_configs, available_plates_staging, available_plates,
                 sync_metadata, sync_logs, proc, stats, fin, swapLog, hist,
                 solverCalls, lastInsert, captcha, pacing, limiter, throttle, solver,
                 race >>

\* One iteration of while (hasNext): parsePageInfo, the no-data exit, the rows
\* pushed to collectedPlates, then the next-page decision with the click.
ReadPage ==
    /\ pager.pc = "loop"
    /\ \E page \in RenderedPages :
         LET info == parsePageInfo(pageMatch(page))
             more == hasNextAfter(info, page.next)
         IN  pager' = [pc |-> IF more THEN "loop" ELSE "done",
                       reads |-> Saturating(pager.reads),
                       clicks |-> IF more THEN Saturating(pager.clicks) ELSE pager.clicks,
                       dom |-> page,
                       hasNext |-> more,
                       collected |-> IF info.noData \/ page.rows = 0 THEN pager.collected
                                     ELSE Saturating(pager.collected)]
    /\ PagerOnly

\* The loop is left: if (collectedPlates.length > 0) ...
LeavePager ==
    /\ pager.pc = "done"
    /\ pager' = [pager EXCEPT !.pc = "left"]
    /\ PagerOnly

NextPager ==
    \/ ReadPage
    \/ LeavePager

SpecPager == InitPager /\ [][NextPager]_vars

\* Every call of the browser returns or times out: an iteration that is started ends.
SpecPagerFair == SpecPager /\ WF_vars(ReadPage) /\ WF_vars(LeavePager)

(* ------------------------------------------------------------------ *)
(* Properties                                                           *)
(* ------------------------------------------------------------------ *)

Exited(w) == P(w).pc = "exited"
Unsharded(w) == P(w).TARGET_SHARD = NoShard
OwnKey(w) == syncKey(P(w).TARGET_SHARD)

\* Exceptions raised by a collaborator (browser session) rather than by the program.
CollabErrors == {"setup", "select", "type", "evaluate"}

\* A query was abandoned, an insert failed or an exception reached the top level.
Degraded(w) ==
    hist[w].abandoned # {} \/ hist[w].insertFailed # {} \/ P(w).e # "none"

SameQuery(r, q) == <<r.region_id, r.station_id, r.plate_type>> = q

\* C1: the swap is never invoked while staging holds 0 rows, and the production view
\* (non-empty at the start) is never replaced by an empty result.
C1_SwapSafety ==
    /\ \A s \in swapLog : s.count > 0
    /\ available_plates # {}

\* C2: in an unsharded run in which a query was abandoned, an insert failed or a
\* fatal error occurred, the swap has not been invoked and the production view is
\* the one the run started with.
C2_NoPartialPublish ==
    \A w \in Workers :
        (Unsharded(w) /\ Degraded(w)) =>
            /\ \A s \in swapLog : s.by # w
            /\ available_plates \in ProductionChoices

\* An unsharded run has ended after abandoning a query of partition (2, 20), whose
\* production rows are still there.
C2_Witness ==
    /\ Unsharded(1) /\ Exited(1)
    /\ \E q \in hist[1].abandoned : q[1] = "2" /\ q[2] = "20"
    /\ \E r \in available_plates : r.region_id = "2" /\ r.station_id = "20"

\* C3: every row a run has staged belongs to a query whose pagination loop has
\* stopped, and while a query is between navigation and the end of its pagination
\* loop staging holds no row of this run for it.
C3_StagedAfterPagination ==
    \A w \in Workers :
        /\ \A r \in available_plates_staging :
             r.run = w => \E q \in hist[w].paginated : SameQuery(r, q)
        /\ P(w).pc \in {"nav", "form", "outer", "inner", "paginate"} =>
             ~ \E r \in available_plates_staging : r.run = w /\ SameQuery(r, CurQuery(w))

\* The second query of a station is between two result pages, rows collected, while
\* the rows of the first query are staged.
C3_Witness ==
    /\ P(1).pc = "paginate" /\ L(1).pages >= 1 /\ Len(L(1).collectedPlates) >= 1
    /\ \E r \in available_plates_staging : r.run = 1 /\ r.plate_type = "g"
    /\ CurType(1) = "h"

\* C4: at most 10 outer attempts per query, at most 5 solve attempts per outer
\* attempt, at most 50 solver invocations per query.
C4_RetryCaps ==
    \A w \in Workers :
        /\ L(w).attempts <= 10
        /\ L(w).captchaAttempts <= 5
        /\ solverCalls[w] <= 50

\* A query whose every solve attempt failed: 10 outer attempts of 5 solver calls.
C4_Witness ==
    L(1).attempts = 10 /\ L(1).captchaAttempts = 5 /\ solverCalls[1] = 50

\* C5: a step of a worker inside processStation for partition (r, s) leaves every
\* staging row outside (r, s) as it is, and removes no row staged by another worker.
C5_PartitionIsolation ==
    [][\A w \in Workers :
          proc'[w] # proc[w] =>
            /\ \A r \in available_plates_staging \cup available_plates_staging' :
                 ~(r.region_id = CurDept(w) /\ r.station_id = CurStation(w).id) =>
                    (r \in available_plates_staging <=> r \in available_plates_staging')
            /\ \A r \in available_plates_staging :
                 r.run \in Workers \ {w} => r \in available_plates_staging']_vars

\* Both shard workers have staged rows, next to a row of a third partition.
C5_Witness ==
    /\ \E r \in available_plates_staging : r.run = 1
    /\ \E r \in available_plates_staging : r.run = 2
    /\ OldRow("2", "20") \in available_plates_staging

\* C6: once a run has exited, no partition of staging holds a row of an earlier run
\* alongside a row staged by that run.
C6_NoStaleRows ==
    \A w \in Workers :
        Exited(w) =>
            \A r1, r2 \in available_plates_staging :
                (r1.run = 0 /\ r2.run = w) =>
                    ~(r1.region_id = r2.region_id /\ r1.station_id = r2.station_id)

\* C7: a run that abandoned a query, with no navigation or collaborator exception,
\* has recorded the failure, has gone through all its stations and does not end FAILED.
C7_AbandonNotFatal ==
    \A w \in Workers :
        (Exited(w) /\ hist[w].abandoned # {} /\ ~hist[w].navExhausted
           /\ P(w).e \notin CollabErrors) =>
            /\ stats[w].stationsFailed >= 1
            /\ \E i \in 1..Len(stats[w].errors) : stats[w].errors[i] = "MaxAttempts"
            /\ P(w).idx = Len(P(w).TARGET_DEPTS)
            /\ stats[w].status # "FAILED"

\* C8: a run over a roster of at least one station, with no navigation failure and
\* no collaborator exception, has processed every station and ends COMPLETED or WARNING.
C8_RunCompletes ==
    \A w \in Workers :
        (Exited(w) /\ P(w).browser # "none" /\ Len(P(w).TARGET_DEPTS) >= 1
           /\ ~hist[w].navExhausted /\ P(w).e \notin CollabErrors) =>
            /\ P(w).idx = Len(P(w).TARGET_DEPTS)
            /\ stats[w].status \in {"COMPLETED", "WARNING"}

C11_ExitCode ==
    \A w \in Workers :
        (Exited(w) /\ P(w).browser # "none") =>
            /\ P(w).exitCode = 0 <=> P(w).e = "none"
            /\ P(w).exitCode = 1 <=> P(w).e # "none"

\* C12: a run that has exited with code 1 (the roster could not be loaded) has issued
\* the save of its RunStats record and an upsert of a SyncMetadata status.
C12_InitFailureFlushes ==
    \A w \in Workers :
        (Exited(w) /\ P(w).exitCode = 1) =>
            /\ hist[w].saveCalled
            /\ hist[w].lastUpsert # "none"

\* C13: the rows a staging insert adds hold exactly one row per distinct plate number
\* of the collected sequence, and that row carries the price of the last occurrence of
\* the plate number in the sequence.
C13_Deduplication ==
    \A w \in Workers :
        LET plates == lastInsert[w].plates
            rows == lastInsert[w].rows
        IN  rows # {} =>
              /\ \A i \in 1..Len(plates) :
                   Cardinality({r \in rows : r.plate_no = plates[i].no}) = 1
              /\ \A r \in rows :
                   \E i \in 1..Len(plates) :
                      /\ plates[i].no = r.plate_no
                      /\ \A j \in (i + 1)..Len(plates) : plates[j].no # r.plate_no
                      /\ r.price = priceOf(plates[i].price)

\* The insert made from the collected rows [{A,10},{B,20},{A,15}] added A with 15 and
\* B with 20.
C13_Witness ==
    /\ lastInsert[1].plates = << [no |-> "A", price |-> "10"], [no |-> "B", price |-> "20"],
                                 [no |-> "A", price |-> "15"] >>
    /\ {<<r.plate_no, r.price>> : r \in lastInsert[1].rows} = {<<"A", 15>>, <<"B", 20>>}
    /\ Cardinality(lastInsert[1].rows) = 2

\* C14: the bounds adaptiveSleep applies are the base bounds times 0.75 when the latency
\* is below 1500, times 1.5 when it is above 4000 and unchanged otherwise (1500 and 4000
\* included), rounded down to whole milliseconds; the applied minimum is at most the
\* applied maximum and the sleep lies between them.
C14_AdaptivePacing ==
    pacing.called =>
        /\ pacing.latency < 1500 =>
             /\ 4 * pacing.finalMin <= 3 * pacing.min /\ 3 * pacing.min < 4 * (pacing.finalMin + 1)
             /\ 4 * pacing.finalMax <= 3 * pacing.max /\ 3 * pacing.max < 4 * (pacing.finalMax + 1)
        /\ pacing.latency > 4000 =>
             /\ 2 * pacing.finalMin <= 3 * pacing.min /\ 3 * pacing.min < 2 * (pacing.finalMin + 1)
             /\ 2 * pacing.finalMax <= 3 * pacing.max /\ 3 * pacing.max < 2 * (pacing.finalMax + 1)
        /\ (pacing.latency >= 1500 /\ pacing.latency <= 4000) =>
             /\ pacing.finalMin = pacing.min
             /\ pacing.finalMax = pacing.max
        /\ pacing.finalMin <= pacing.finalMax
        /\ pacing.finalMin <= pacing.ms /\ pacing.ms <= pacing.finalMax

\* adaptiveSleep(800, 1500, 1500) has applied the bounds 800 and 1500.
C14_Witness ==
    /\ pacing.called /\ pacing.latency = 1500
    /\ pacing.min = 800 /\ pacing.max = 1500
    /\ pacing.finalMin = 800 /\ pacing.finalMax = 1500

\* C15: after any sequence of wait() calls the token count is within 0..limit, at most
\* limit acquisitions were granted since the last refill, and a call that found no
\* token was granted only after refilling.
C15_RateLimiter ==
    /\ limiter.tokens >= 0 /\ limiter.tokens <= limit
    /\ limiter.grants <= limit
    /\ limiter.grants + limiter.tokens = limit
    /\ limiter.found <= 0 =>
         /\ limiter.refilled
         /\ limiter.grants = 1
         /\ limiter.lastRefill = limiter.now

\* A call of wait() found the quota exhausted, slept, refilled and was granted.
C15_Witness ==
    /\ limiter.found = 0 /\ limiter.refilled
    /\ limiter.tokens = limit - 1 /\ limiter.grants = 1
    /\ limiter.lastRefill > 1000

\* C16: when the second submitted CAPTCHA of a query is accepted after the first was
\* rejected, the solver having been invoked twice, captcha_attempts is 2 and
\* captcha_success, the count of answers accepted by the portal, is 1.
C16_ScenarioCounters ==
    \A w \in Workers :
        (P(w).pc = "outer" /\ L(w).success /\ L(w).attempts = 2
           /\ captcha[w].captchaAttempts = 2) =>
            /\ captcha[w].captchaSuccess = 1
            /\ stats[w].stationsFailed = 0

\* The rows of staging that run w inserted.
RowsOf(w) == {r \in available_plates_staging : r.run = w}

\* C17: a query whose first result page showed the no-data marker has no staged row,
\* no failed insert and no abandonment; total_plates counts the staged rows only,
\* stations_failed the abandoned queries only, every error entry stems from an
\* abandonment, a failed insert or the top-level handler, and a station's status is
\* FAILED only when one of its queries was abandoned.
C17_NoData ==
    \A w \in Workers :
        /\ \A q \in hist[w].noData :
               /\ ~ \E r \in RowsOf(w) : SameQuery(r, q)
               /\ q \notin hist[w].insertFailed \cup hist[w].abandoned
        /\ stats[w].totalPlates = Cardinality(RowsOf(w))
        /\ stats[w].stationsFailed = Cardinality(hist[w].abandoned)
        /\ \A i \in 1..Len(stats[w].errors) :
             \/ stats[w].errors[i] = "MaxAttempts" /\ hist[w].abandoned # {}
             \/ stats[w].errors[i] = "DBStaging" /\ hist[w].insertFailed # {}
             \/ stats[w].errors[i] = "GLOBAL" /\ P(w).e # "none"
        /\ (P(w).idx >= 1 /\ L(w).status = "FAILED") =>
             \E q \in hist[w].abandoned : q[1] = CurDept(w) /\ q[2] = CurStation(w).id

\* The only query of a station answered with the no-data marker on its first page:
\* nothing staged by the run, no plate counted, the station counted as a success.
C17_Witness ==
    /\ hist[1].noData = {<<"2", "21", "g">>}
    /\ hist[1].paginated = {<<"2", "21", "g">>}
    /\ RowsOf(1) = {}
    /\ stats[1].totalPlates = 0 /\ stats[1].stationsFailed = 0
    /\ stats[1].stationsSuccess = 1

\* The plate-type iteration of worker w has just ended without an abandonment and
\* without reaching the result pages: the option was absent from the form.
Skipped(w) ==
    /\ P(w).pc = "types" /\ L(w).pIdx >= 1
    /\ CurQuery(w) \notin hist[w].abandoned \cup hist[w].paginated

\* C18: when the plate-type option is absent the query is skipped: no solver call, no
\* submission (which needs a solved code) and no insert happened for it, it has no
\* staged row, stations_failed counts the abandoned queries only, every error entry
\* stems from an abandonment or a failed insert, and the station's status is FAILED
\* only when another query of the station was abandoned.
C18_AbsentOptionSkipped ==
    \A w \in Workers :
        /\ Skipped(w) =>
             /\ solverCalls[w] = 0
             /\ lastInsert[w] = NoInsert
             /\ ~ \E r \in RowsOf(w) : SameQuery(r, CurQuery(w))
             /\ CurQuery(w) \notin hist[w].insertFailed
             /\ L(w).status = "FAILED" =>
                  \E q \in hist[w].abandoned \ {CurQuery(w)} :
                      q[1] = CurDept(w) /\ q[2] = CurStation(w).id
        /\ stats[w].stationsFailed = Cardinality(hist[w].abandoned)
        /\ Len(stats[w].errors) =
              Cardinality(hist[w].abandoned) + Cardinality(hist[w].insertFailed)
        /\ \A r \in RowsOf(w) : \E q \in hist[w].paginated : SameQuery(r, q)

\* The second query of station 20 skipped after the first one staged rows: the
\* station is still a success and nothing was counted as failed.
C18_Witness ==
    /\ Skipped(1) /\ CurQuery(1) = <<"2", "20", "h">>
    /\ hist[1].paginated = {<<"2", "20", "g">>}
    /\ RowsOf(1) # {}
    /\ L(1).status = "SUCCESS"
    /\ stats[1].stationsFailed = 0 /\ stats[1].errors = << >>

\* The key 'plates_sync_shard_X' of shard label X.
ShardKey(X) ==
    CASE X = "A" -> "plates_sync_shard_A"
      [] X = "B" -> "plates_sync_shard_B"
      [] OTHER -> "plates_sync_shard_"

\* C19: a worker started with shard label X issues its status upserts only under the
\* key 'plates_sync_shard_X', never under 'plates_full_sync' or another shard's key,
\* and two workers started with a shard label never write under a common key.
C19_SyncKeyIsolation ==
    /\ \A w \in Workers :
         (P(w).pc # "off" /\ P(w).TARGET_SHARD # NoShard) =>
             hist[w].keys \subseteq {ShardKey(P(w).TARGET_SHARD)}
    /\ \A w, v \in Workers :
         (w # v /\ P(w).TARGET_SHARD # NoShard /\ P(v).TARGET_SHARD # NoShard) =>
             hist[w].keys \cap hist[v].keys = {}

\* C20: a worker started with a shard label never calls clearStaging and never invokes
\* swap_plates_data; an unsharded run has called clearStaging before it processes its
\* first station, and once that delete succeeded staging holds no row of an earlier run.
C20_OnlyFullRunClearsAndSwaps ==
    \A w \in Workers :
        /\ (P(w).pc # "off" /\ ~Unsharded(w)) =>
             /\ hist[w].cleared = "none"
             /\ ~hist[w].swapInvoked
             /\ P(w).pc \notin {"clearStaging", "swapFailed"}
        /\ (P(w).pc # "off" /\ Unsharded(w)) =>
             /\ P(w).idx >= 1 => hist[w].cleared # "none"
             /\ (P(w).pc = "stations" /\ P(w).idx = 0 /\ hist[w].cleared = "ok") =>
                  available_plates_staging = {}
             /\ hist[w].cleared = "ok" =>
                  ~ \E r \in available_plates_staging : r.run = 0
             /\ hist[w].swapInvoked => hist[w].cleared # "none"

\* An unsharded run has reported RUNNING, cleared staging and stands at the call of
\* processStation for its first station.
C20_Witness ==
    /\ Unsharded(1) /\ P(1).pc = "preclear" /\ P(1).idx = 1
    /\ hist[1].cleared = "ok" /\ hist[1].reportedRunning
    /\ available_plates_staging = {}

\* C21: whenever the finalizer invokes swap_plates_data, no shard's status record
\* reads RUNNING.
C21_SwapAfterShardsDone ==
    [][(fin.pc = "swap" /\ fin'.pc # "swap") =>
          \A k \in SyncKeys \ {"plates_full_sync"} : sync_metadata[k] # "RUNNING"]_vars

\* No collaborator failed under worker w: no browser or portal exception, the staging
\* count was answered when asked, and the last status upsert was accepted.
NoFault(w) ==
    /\ P(w).e \notin CollabErrors \cup {"nav"}
    /\ hist[w].lastUpsert = "ok"
    /\ P(w).e = "none" => P(w).count # -1

\* C22: an unsharded run that ends with zero staged rows ends with RunStats status
\* WARNING and SyncMetadata status WARNING under plates_full_sync, and a run ends
\* with status WARNING only when it is unsharded and staging is empty.
C22_EmptyStagingWarning ==
    \A w \in Workers :
        Exited(w) =>
            /\ (Unsharded(w) /\ NoFault(w) /\ available_plates_staging = {}) =>
                 /\ stats[w].status = "WARNING"
                 /\ sync_metadata["plates_full_sync"] = "WARNING"
            /\ stats[w].status = "WARNING" =>
                 Unsharded(w) /\ available_plates_staging = {}

\* C23: an unsharded run whose swap returned an error ends with RunStats status
\* FAILED and with SyncMetadata status FAILED under plates_full_sync.
C23_SwapFailureVisible ==
    \A w \in Workers :
        (Exited(w) /\ Unsharded(w) /\ hist[w].swapError) =>
            /\ stats[w].status = "FAILED"
            /\ sync_metadata["plates_full_sync"] = "FAILED"

\* C24: for a high-risk station every pacing sleep between the form selections of
\* its first query, before any CAPTCHA submission, is scaled by 3/2.
C24_HighRiskThrottled ==
    isHighRisk(throttle.station) =>
        \A k \in 1..Len(throttle.sleeps) : throttle.sleeps[k].multiplier = <<3, 2>>

\* C25: a code typed into the form has exactly 4 characters, all of [A-Z0-9]; an
\* outer attempt that ends without a code submits nothing and is counted among the
\* outer attempts, of which there are at most 10.
C25_OnlyFourCharCodes ==
    /\ solver.typed # << >> =>
         /\ Len(solver.typed) = 4
         /\ \A i \in 1..Len(solver.typed) : solver.typed[i] \in AZ09
    /\ solver.code # << >> =>
         /\ Len(solver.code) = 4
         /\ \A i \in 1..Len(solver.code) : solver.code[i] \in AZ09
    /\ solver.attempts <= maxQueryAttempts
    /\ solver.attempts =
         solver.submissions + solver.skipped + IF solver.pc = "inner" THEN 1 ELSE 0
    /\ solver.typed # << >> <=> solver.submissions > 0

\* All 10 outer attempts were used up, one of them by 5 solve attempts without a
\* usable answer, and a code was typed in another.
C25_Witness ==
    /\ solver.pc = "outer" /\ solver.attempts = maxQueryAttempts
    /\ solver.skipped >= 1 /\ solver.submissions >= 1
    /\ solver.typed = <<"A", "B", "1", "2">>
    /\ solver.captchaAttempts = maxCaptchaAttempts /\ solver.code = << >>

\* C28: after a solve attempt in which the recognition service failed with a
\* transient-overload message, the 30-second cooldown has been performed.
C28_OverloadCooldown ==
    (solver.pc = "inner" /\ isOverload(solver.error)) => solver.cooldown

\* C26: the outcome of a submission is decided by the first observed signal: when
\* the rejection alert is observed first the attempt is REJECTED at the moment of the
\* alert; when the results are observed first it is ACCEPTED; when the timeout comes
\* first it is TIMED_OUT; a later signal changes nothing.
C26_FirstSignalWins ==
    /\ race.first = "alert" =>
          race.outcome = "REJECTED" /\ race.decidedAt = race.alertAt
    /\ race.first = "results" => race.outcome = "ACCEPTED" /\ race.success
    /\ race.first = "timeout" => race.outcome = "TIMED_OUT" /\ ~race.success

\* C27: a run in which a staging insert failed, with no navigation or collaborator
\* exception, has recorded an error entry for it, has not counted or staged plates
\* for that query nor counted a failed station for it, and was not aborted: it went
\* through all its stations and no exception reached the top level.
C27_InsertFailureNotFatal ==
    \A w \in Workers :
        (Exited(w) /\ hist[w].insertFailed # {} /\ ~hist[w].navExhausted
           /\ P(w).e \notin CollabErrors) =>
            /\ \E i \in 1..Len(stats[w].errors) : stats[w].errors[i] = "DBStaging"
            /\ \A q \in hist[w].insertFailed : ~ \E r \in RowsOf(w) : SameQuery(r, q)
            /\ stats[w].totalPlates = Cardinality(RowsOf(w))
            /\ stats[w].stationsFailed = Cardinality(hist[w].abandoned)
            /\ P(w).idx = Len(P(w).TARGET_DEPTS)
            /\ P(w).e = "none"

\* C29: navigation is attempted at most 3 times per query; after a failed first or
\* second attempt the loop is still at the navigation with another attempt to make;
\* the third failure leaves the loop as the thrown error of the run; and the form
\* selections are reached only by the step of a navigation attempt that succeeded.
C29_NavigationRetry ==
    [][\A w \in Workers :
          /\ proc'[w].loc.navAttempts <= 3
          /\ (P(w).pc = "nav" /\ proc'[w].pc = "nav"
                /\ proc'[w].loc.navAttempts # L(w).navAttempts) =>
                 /\ proc'[w].loc.navAttempts = L(w).navAttempts + 1
                 /\ proc'[w].loc.navAttempts \in {1, 2}
          /\ (hist'[w].navExhausted /\ ~hist[w].navExhausted) =>
                 /\ P(w).pc = "nav" /\ L(w).navAttempts = 2
                 /\ proc'[w].pc = "catch" /\ proc'[w].e = "nav"
          /\ (P(w).pc # "form" /\ proc'[w].pc = "form") =>
                 /\ P(w).pc = "nav"
                 /\ proc'[w].loc.navAttempts = L(w).navAttempts + 1
                 /\ hist'[w] = hist[w]]_vars

\* A query staged after a navigation that succeeded, then a query whose third
\* navigation attempt failed: the error is at the handler of the run.
C29_Witness ==
    /\ hist[1].navExhausted /\ P(1).pc = "catch" /\ P(1).e = "nav"
    /\ available_plates_staging # {}

\* C30: whenever the paginator reads the no-data marker, on the first page or a
\* later one, it stops and the query yields zero rows: the loop is left with
\* nothing collected, so that nothing is staged for the query.
C30_NoDataYieldsNothing ==
    [][\A w \in Workers :
          (P(w).pc = "paginate" /\ proc'[w].pc = "stage"
             /\ proc'[w].loc.pages = L(w).pages) =>
                proc'[w].loc.collectedPlates = << >>]_vars

\* C31: the next-page control is authoritative. After a page without the no-data
\* text is read, the loop goes on (the control is activated and one more page is
\* read) when the control exists, also when the page marker is absent or claims a
\* single page; and the loop stops after the current page when no control exists,
\* also when the marker claims current < total.
C31_ControlAuthoritative ==
    pager.reads >= 1 =>
        /\ (~pager.dom.noData /\ pager.dom.next) =>
               pager.hasNext /\ pager.pc = "loop" /\ pager.clicks >= 1
        /\ ~pager.dom.next => ~pager.hasNext /\ pager.pc \in {"done", "left"}
        /\ pager.reads < MaxReads =>
               pager.clicks = pager.reads - (IF pager.hasNext THEN 0 ELSE 1)

\* A first page without a page marker and with a next-page control: the control was
\* activated and the loop is about to read a second page.
C31_Witness ==
    /\ pager.pc = "loop" /\ pager.reads = 1 /\ pager.clicks = 1
    /\ ~pager.dom.marker.present /\ pager.dom.next /\ ~pager.dom.noData

\* C32: processing one query always terminates. With every call of the browser
\* returning, the pagination loop of an accepted query is eventually left, whatever
\* the portal renders.
C32_PaginationTerminates == <>(pager.pc = "left")

\* C33: within one station the partition pre-clear happens once, before the first
\* plate-type query: it is the step taken with no plate type started yet, and every
\* other step of the worker in that station keeps each row of the station's
\* partition, so the rows of the private query outlive the rental query.
C33_PreClearOnce ==
    [][\A w \in Workers :
          proc'[w] # proc[w] =>
            /\ P(w).pc = "preclear" => L(w).pIdx = 0 /\ RowsOf(w) = {}
            /\ P(w).pc \in {"types", "nav", "form", "outer", "inner", "paginate",
                            "stage", "epilogue"} =>
                 \A r \in Partition(available_plates_staging, CurDept(w), CurStation(w).id) :
                     r \in available_plates_staging']_vars

\* The rental query of a station was abandoned after its retries and the rows of the
\* private query of the same station are in staging.
C33_Witness ==
    /\ P(1).pc = "types" /\ L(1).pIdx = 2 /\ L(1).status = "FAILED"
    /\ <<"2", "20", "h">> \in hist[1].abandoned
    /\ \E r \in available_plates_staging :
         r.run = 1 /\ r.station_id = "20" /\ r.plate_type = "g"

\* C34: each processed station is counted exactly once, in stations_success or in
\* stations_failed: the two counters never add up to more than the number of
\* stations started, and a station that ran through to its epilogue has been counted.
C34_StationCountedOnce ==
    \A w \in Workers :
        /\ stats[w].stationsSuccess + stats[w].stationsFailed <= P(w).idx
        /\ P(w).e = "getRegion is not defined" =>
             stats[w].stationsSuccess + stats[w].stationsFailed = P(w).idx

====
